---- MODULE Spec2Model ----
(***************************************************************************)
(* A model of the DeAI network simulation: the in-memory node graph, the   *)
(* message bus, the IndexedDB persistence layer with its retry loop, the   *)
(* content-addressed store and the query orchestrator.                     *)
(*                                                                         *)
(* JavaScript objects are modelled by reference: nodeHeap and msgHeap hold *)
(* the objects, and networkNodes, networkMessages and the pending          *)
(* persistence operations hold indices into them, so that an in-place      *)
(* mutation (lastSeen, delivered) is seen through every alias, and a       *)
(* replaced array slot leaves the old object alive in the closures that    *)
(* captured it.                                                            *)
(*                                                                         *)
(* The runtime is single threaded: one action is one macrotask (a call     *)
(* from the UI, a timer callback, an IndexedDB event) together with the    *)
(* promise continuations (microtasks) it triggers.                         *)
(***************************************************************************)
EXTENDS Integers, Sequences, FiniteSets, TLC

(***************************************************************************)
(* Bounds of the exploration.                                              *)
(***************************************************************************)
NumSeeds == 2          \* seeds of the Math.random stream that are explored
MaxTime == 1           \* largest value of the logical clock behind Date.now()
MaxMessages == 1       \* accepted sends per behaviour
NumListeners == 2      \* listener closures created per behaviour
MaxFaults == 1         \* transient persistence failures injected per behaviour
MaxInits == 2          \* initializeNetwork calls per behaviour
MaxOps == 3            \* content-store calls per behaviour
MaxLoads == 2          \* loadNetworkState calls per behaviour
MaxQueries == 2        \* processDeAIQuery calls per behaviour
MaxBackendInits == 2   \* initializeBackendServices calls per behaviour
MaxSwitches == 1       \* start/stopBackendSimulation calls by a caller
MaxTicks == 1          \* interval callbacks per behaviour
MaxUpdates == 2        \* updateNodeStatus calls per behaviour
NumTopologies == 24    \* random streams the first initializeNetwork draws from
MaxBusyTicks == 70     \* interval callbacks of a simulation left running
MaxGets == 1           \* getServiceRequests calls per behaviour

(***************************************************************************)
(* Program constants.                                                      *)
(***************************************************************************)
NumIpfs == 5
NumStandard == 15
MaxRetries == 3

VARIABLES
    now,               \* Date.now(), a logical clock
    nodeHeap,          \* the NetworkNode objects ever allocated
    networkNodes,      \* let networkNodes: references into nodeHeap
    msgHeap,           \* the NetworkMessage objects ever allocated
    networkMessages,   \* let networkMessages: references into msgHeap
    messageListeners,  \* let messageListeners: the registered closures
    isInitialized,     \* let isInitialized
    db,                \* the IndexedDB object stores, one function per store
    tasks,             \* persistence operations in flight
    backendDown,       \* IndexedDB is unavailable in this session
    faults,            \* transient persistence failures injected so far
    timers,            \* messages whose delivery timer is pending
    promise,           \* state of the promise returned by each accepted send
    lastSend,          \* the latest sendNetworkMessage call and its outcome
    calls,             \* what the listener closures have been called with
    subAt, unsubAt,    \* per listener: messages created before (un)subscribing
    finished,          \* settled addToStore calls: attempts made, outcome;
                       \* of a message write also the message, the .catch
                       \* attached, and how many writes of the message had
                       \* settled before
    inits,             \* initializeNetwork calls
    ipfsOps,           \* content-store calls
    pq,                \* the processQuery call
    reads,             \* settled getAllFromStore calls and their outcome
    loads,             \* loadNetworkState calls
    deaiChatSession,   \* let deaiChatSession: a ChatSession (0: null)
    deaiCalls,         \* processDeAIQuery calls
    backendServices,   \* let backendServices
    serviceRequests,   \* let serviceRequests
    isBackendInitialized, \* let isBackendInitialized
    simulationInterval,   \* let simulationInterval (0: undefined)
    activeIntervals,   \* the setInterval timers that have not been cleared
    backendInits,      \* initializeBackendServices calls
    backendLog,        \* the starts, stops and ticks of the simulation
    updates            \* updateNodeStatus calls

vars == <<now, nodeHeap, networkNodes, msgHeap, networkMessages,
          messageListeners, isInitialized, db, tasks, backendDown, faults, timers,
          promise,
          lastSend, calls, subAt, unsubAt, finished, inits, ipfsOps, pq,
          reads, loads, deaiChatSession, deaiCalls, backendServices,
          serviceRequests, isBackendInitialized, simulationInterval,
          activeIntervals, backendInits, backendLog, updates>>

(***************************************************************************)
(* Helpers on sequences.                                                   *)
(***************************************************************************)
Includes(s, x) == \E i \in 1..Len(s) : s[i] = x

Range(s) == {s[i] : i \in 1..Len(s)}

RemoveAt(s, i) == SubSeq(s, 1, i - 1) \o SubSeq(s, i + 1, Len(s))

(***************************************************************************)
(* Math.random(): a pseudo-random stream.  A stream state x stands for the *)
(* value x / 65537 in [0, 1); the seed is the nondeterministic input.      *)
(***************************************************************************)
NextRandom(x) == (x * 75 + 74) % 65537

\* Math.random() > 0.1
IsActiveDraw(x) == x * 10 > 65537

\* a draw of 2 to 5 connections
ConnectionsDrawToFive(x) == 2 + ((x * 4) \div 65537)

\* Math.floor(2 + Math.random() * 3)
ConnectionsDraw(x) == 2 + ((x * 3) \div 65537)

\* Math.floor(Math.random() * n), as a 1-based index
IndexDraw(x, n) == ((x * n) \div 65537) + 1

Seeds == 1..NumSeeds

(***************************************************************************)
(* initializeNetwork, the synchronous construction of newNodes.            *)
(***************************************************************************)
NewNode(id, type, active, t) ==
    [id |-> id, type |-> type, isActive |-> active, connectedNodes |-> <<>>,
     createdAt |-> t, lastSeen |-> t]

\* the loop counting from 1: ipfs-1 .. ipfs-5
IpfsNodesOneBased(t) ==
    [i \in 1..NumIpfs |-> NewNode("ipfs-" \o ToString(i), "ipfs", TRUE, t)]

IpfsNodes(t) ==
    [i \in 1..NumIpfs |-> NewNode("ipfs-" \o ToString(i - 1), "ipfs", TRUE, t)]

RECURSIVE StandardNodes(_, _, _)
StandardNodes(i, rng, t) ==
    IF i = NumStandard THEN [nodes |-> <<>>, rng |-> rng]
    ELSE LET r == NextRandom(rng)
             rest == StandardNodes(i + 1, r, t)
         IN [nodes |-> <<NewNode("node-" \o ToString(i), "standard",
                                 IsActiveDraw(r), t)>> \o rest.nodes,
             rng |-> rest.rng]

CreateNodes(rng, t) ==
    LET std == StandardNodes(0, rng, t)
    IN [nodes |-> <<NewNode("llm-main", "llm", TRUE, t)>> \o IpfsNodes(t)
                   \o std.nodes,
        rng |-> std.rng]

\* for (let i = 0; i < connections; i++) { draw; push if not included }
RECURSIVE DrawConnections(_, _, _, _)
DrawConnections(conn, otherNodes, k, rng) ==
    IF k = 0 THEN [conn |-> conn, rng |-> rng]
    ELSE LET r == NextRandom(rng)
             randomNode == otherNodes[IndexDraw(r, Len(otherNodes))]
         IN DrawConnections(IF Includes(conn, randomNode.id) THEN conn
                            ELSE Append(conn, randomNode.id),
                            otherNodes, k - 1, r)

\* push each id of ids that conn does not include yet
RECURSIVE PushMissing(_, _)
PushMissing(conn, ids) ==
    IF ids = <<>> THEN conn
    ELSE PushMissing(IF Includes(conn, Head(ids)) THEN conn
                     ELSE Append(conn, Head(ids)), Tail(ids))

\* the forced links without the push to ipfsNode.connectedNodes
LinkLlmOneWay(nodes, i) ==
    LET ipfs == SelectSeq(nodes, LAMBDA n : n.type = "ipfs")
        ipfsIds == [j \in 1..Len(ipfs) |-> ipfs[j].id]
    IN [nodes EXCEPT ![i].connectedNodes = PushMissing(@, ipfsIds)]

\* "Ensure LLM is connected to all IPFS nodes", run for node i = llm-main
EnsureLlmLinks(nodes, i) ==
    LET ipfs == SelectSeq(nodes, LAMBDA n : n.type = "ipfs")
        ipfsIds == [j \in 1..Len(ipfs) |-> ipfs[j].id]
    IN [j \in 1..Len(nodes) |->
          IF j = i
          THEN [nodes[j] EXCEPT !.connectedNodes = PushMissing(@, ipfsIds)]
          ELSE IF nodes[j].type = "ipfs"
          THEN [nodes[j] EXCEPT !.connectedNodes =
                                   PushMissing(@, <<nodes[i].id>>)]
          ELSE nodes[j]]

\* the body of newNodes.forEach(node => ...) for the node at index i
ConnectNode(nodes, i, rng) ==
    LET node == nodes[i]
        otherNodes == SelectSeq(nodes, LAMBDA n : n.id # node.id)
        r == NextRandom(rng)
        d == DrawConnections(node.connectedNodes, otherNodes,
                             ConnectionsDraw(r), r)
        wired == [nodes EXCEPT ![i].connectedNodes = d.conn]
    IN [nodes |-> IF node.id = "llm-main" THEN EnsureLlmLinks(wired, i)
                  ELSE wired,
        rng |-> d.rng]

RECURSIVE ConnectNodes(_, _, _)
ConnectNodes(nodes, i, rng) ==
    IF i > Len(nodes) THEN nodes
    ELSE LET c == ConnectNode(nodes, i, rng)
         IN ConnectNodes(c.nodes, i + 1, c.rng)

\* newNodes as initializeNetwork builds it from one random stream at time t
BuildNetwork(seed, t) ==
    LET c == CreateNodes(seed, t)
    IN ConnectNodes(c.nodes, 1, c.rng)

(***************************************************************************)
(* The backend simulation (backendSimulation.ts): the services.  A service *)
(* keeps the fields a decision or a later step reads; name, region and     *)
(* avgResponseTime are numbers and labels nothing reads back, and their    *)
(* draws are taken from the stream all the same.                           *)
(***************************************************************************)
\* the five for loops of initializeBackendServices: type and loop bound
ServicePlan ==
    <<[type |-> "api", count |-> 3], [type |-> "database", count |-> 2],
      [type |-> "compute", count |-> 2], [type |-> "storage", count |-> 3],
      [type |-> "analytics", count |-> 2]>>

\* Math.random() > 0.9
IsDegradedDraw(x) == x * 10 > 9 * 65537

\* createService(type, index): the draws of region, status, avgResponseTime
CreateService(type, index, rng) ==
    LET region == NextRandom(rng)
        status == NextRandom(region)
        avgResponseTime == NextRandom(status)
    IN [service |-> [id |-> type \o "-" \o ToString(index), type |-> type,
                     index |-> index,
                     status |-> IF IsDegradedDraw(status) THEN "degraded"
                                ELSE "online",
                     connections |-> <<>>, processedRequests |-> 0,
                     lastRequest |-> -1],
        rng |-> avgResponseTime]

\* for (let i = 0; i < count; i++) backendServices.push(createService(type, i))
RECURSIVE CreateServices(_, _, _, _)
CreateServices(type, i, count, rng) ==
    IF i = count THEN [services |-> <<>>, rng |-> rng]
    ELSE LET c == CreateService(type, i, rng)
             rest == CreateServices(type, i + 1, count, c.rng)
         IN [services |-> <<c.service>> \o rest.services, rng |-> rest.rng]

\* the five loops, one after the other
RECURSIVE CreateAllServices(_, _)
CreateAllServices(plan, rng) ==
    IF plan = <<>> THEN [services |-> <<>>, rng |-> rng]
    ELSE LET c == CreateServices(Head(plan).type, 0, Head(plan).count, rng)
             rest == CreateAllServices(Tail(plan), c.rng)
         IN [services |-> c.services \o rest.services, rng |-> rest.rng]

\* the ids of the first `most` services of the list
FirstIds(list, most) ==
    [j \in 1..(IF Len(list) < most THEN Len(list) ELSE most) |-> list[j].id]

\* the id of list[Math.floor(Math.random() * list.length)], when the list
\* is not empty
DrawnId(list, x) ==
    IF list = <<>> THEN <<>> ELSE <<list[IndexDraw(x, Len(list))].id>>

\* the body of backendServices.forEach(service => { switch ... }) for the
\* service at index i
ConnectService(services, i, rng) ==
    LET service == services[i]
        otherServices == SelectSeq(services, LAMBDA o : o.id # service.id)
        OfType(type) == SelectSeq(otherServices, LAMBDA o : o.type = type)
        r1 == NextRandom(rng)
        r2 == NextRandom(r1)
    IN CASE service.type = "api" ->
              [services |->
                 [services EXCEPT ![i].connections =
                     PushMissing(PushMissing(@, FirstIds(OfType("database"), 2)),
                                 FirstIds(OfType("compute"), 2))],
               rng |-> rng]
         [] service.type = "database" ->
              [services |->
                 [services EXCEPT ![i].connections =
                     PushMissing(@, FirstIds(OfType("storage"), 2))],
               rng |-> rng]
         [] service.type = "compute" ->
              [services |->
                 [services EXCEPT ![i].connections =
                     PushMissing(PushMissing(@, DrawnId(OfType("database"), r1)),
                                 DrawnId(OfType("analytics"),
                                         IF OfType("database") = <<>>
                                         THEN r1 ELSE r2))],
               rng |-> IF OfType("database") = <<>>
                       THEN (IF OfType("analytics") = <<>> THEN rng ELSE r1)
                       ELSE (IF OfType("analytics") = <<>> THEN r1 ELSE r2)]
         [] service.type = "analytics" ->
              [services |->
                 [services EXCEPT ![i].connections =
                     PushMissing(PushMissing(@, FirstIds(OfType("database"), 2)),
                                 DrawnId(OfType("storage"), r1))],
               rng |-> IF OfType("storage") = <<>> THEN rng ELSE r1]
         [] OTHER -> [services |-> services, rng |-> rng]

\* connectServices()
RECURSIVE ConnectServices(_, _, _)
ConnectServices(services, i, rng) ==
    IF i > Len(services) THEN [services |-> services, rng |-> rng]
    ELSE LET c == ConnectService(services, i, rng)
         IN ConnectServices(c.services, i + 1, c.rng)

\* backendServices as lines 87-114 build it from one random stream
BuildServices(seed) ==
    LET c == CreateAllServices(ServicePlan, seed)
    IN ConnectServices(c.services, 1, c.rng)

(***************************************************************************)
(* The IndexedDB object stores.  A store is a function from keys to the    *)
(* records put under them (structured clones, so values, not references).  *)
(***************************************************************************)
EmptyStore == [k \in {} |-> 0]

EmptyDb == [nodes |-> EmptyStore, messages |-> EmptyStore,
            content |-> EmptyStore, metadata |-> EmptyStore]

\* the key a record is stored under: the store's keyPath (initDatabase)
KeyOf(storeName, record) ==
    CASE storeName = "content" -> record.cid
      [] storeName = "metadata" -> record.key
      [] OTHER -> record.id

\* store.add(item): no overwrite of a record already under the key
StoreAdd(store, storeName, record) ==
    [k \in DOMAIN store \cup {KeyOf(storeName, record)} |->
        IF k \in DOMAIN store THEN store[k] ELSE record]

\* store.put(item): insert or overwrite under the record's key
StorePutKeepingMetadata(store, storeName, record) ==
    [k \in DOMAIN store \cup {KeyOf(storeName, record)} |->
        IF k # KeyOf(storeName, record) THEN store[k]
        ELSE IF k \in DOMAIN store /\ "metadata" \in DOMAIN record
             THEN [record EXCEPT !.metadata = store[k].metadata]
             ELSE record]

StorePut(store, storeName, record) ==
    [k \in DOMAIN store \cup {KeyOf(storeName, record)} |->
        IF k = KeyOf(storeName, record) THEN record ELSE store[k]]

\* store.get(id): the record, or null
NoRecord == [null |-> TRUE]

StoreGet(store, key) == IF key \in DOMAIN store THEN store[key] ELSE NoRecord

\* a delete that removes nothing
StoreKeep(store, key) == store

\* store.delete(id)
StoreDelete(store, key) == [k \in DOMAIN store \ {key} |-> store[k]]

(***************************************************************************)
(* What a pending put was handed: an object of one of the heaps (the put   *)
(* clones it when store.put runs, not when addToStore is called) or a      *)
(* value built for the call.                                               *)
(***************************************************************************)
NodeItem(ref) == [kind |-> "node", ref |-> ref, val |-> NoRecord]

MsgItem(ref) == [kind |-> "msg", ref |-> ref, val |-> NoRecord]

ValItem(v) == [kind |-> "val", ref |-> 0, val |-> v]

NoOwner == [kind |-> "none", id |-> 0]

\* .catch(err => console.error('Failed to store message in database:', err))
StoreCatch == [kind |-> "none", id |-> 1]

\* .catch(err => console.error('Failed to update message status:', err))
StatusCatch == [kind |-> "none", id |-> 2]

\* addToStore(storeName, item): let retries = 3, about to open the database
PutTask(storeName, item, owner) ==
    [op |-> "put", store |-> storeName, item |-> item, key |-> "",
     retries |-> MaxRetries, attempts |-> 0, phase |-> "open", owner |-> owner]

(***************************************************************************)
(* The module state as one record W, so that an operation is a function    *)
(* from states to states and a promise continuation can run an operation   *)
(* inside the step that settles the promise.                               *)
(***************************************************************************)
World ==
    [now |-> now, nodeHeap |-> nodeHeap, networkNodes |-> networkNodes,
     msgHeap |-> msgHeap, networkMessages |-> networkMessages,
     messageListeners |-> messageListeners, isInitialized |-> isInitialized,
     db |-> db, tasks |-> tasks, backendDown |-> backendDown,
     faults |-> faults, timers |-> timers,
     promise |-> promise, lastSend |-> lastSend, calls |-> calls,
     subAt |-> subAt, unsubAt |-> unsubAt, finished |-> finished,
     inits |-> inits, ipfsOps |-> ipfsOps, pq |-> pq, reads |-> reads,
     loads |-> loads, deaiChatSession |-> deaiChatSession,
     deaiCalls |-> deaiCalls, backendServices |-> backendServices,
     serviceRequests |-> serviceRequests,
     isBackendInitialized |-> isBackendInitialized,
     simulationInterval |-> simulationInterval,
     activeIntervals |-> activeIntervals, backendInits |-> backendInits,
     backendLog |-> backendLog, updates |-> updates]

\* no sendNetworkMessage call was made
NoSend == [from |-> "", to |-> "", result |-> "none", msg |-> 0, before |-> 0]

\* the state a macrotask starts in: lastSend is about this macrotask only
Start == [World EXCEPT !.lastSend = NoSend]

Commit(W) ==
    /\ now' = W.now
    /\ nodeHeap' = W.nodeHeap
    /\ networkNodes' = W.networkNodes
    /\ msgHeap' = W.msgHeap
    /\ networkMessages' = W.networkMessages
    /\ messageListeners' = W.messageListeners
    /\ isInitialized' = W.isInitialized
    /\ db' = W.db
    /\ tasks' = W.tasks
    /\ backendDown' = W.backendDown
    /\ faults' = W.faults
    /\ timers' = W.timers
    /\ promise' = W.promise
    /\ lastSend' = W.lastSend
    /\ calls' = W.calls
    /\ subAt' = W.subAt
    /\ unsubAt' = W.unsubAt
    /\ finished' = W.finished
    /\ inits' = W.inits
    /\ ipfsOps' = W.ipfsOps
    /\ pq' = W.pq
    /\ reads' = W.reads
    /\ loads' = W.loads
    /\ deaiChatSession' = W.deaiChatSession
    /\ deaiCalls' = W.deaiCalls
    /\ backendServices' = W.backendServices
    /\ serviceRequests' = W.serviceRequests
    /\ isBackendInitialized' = W.isBackendInitialized
    /\ simulationInterval' = W.simulationInterval
    /\ activeIntervals' = W.activeIntervals
    /\ backendInits' = W.backendInits
    /\ backendLog' = W.backendLog
    /\ updates' = W.updates

(***************************************************************************)
(* sendNetworkMessage: the body of the promise executor.                   *)
(***************************************************************************)
\* networkNodes.find(n => n.id === id): the first match, 0 for undefined
FindNode(W, id) ==
    LET hits == {i \in 1..Len(W.networkNodes) :
                    W.nodeHeap[W.networkNodes[i]].id = id}
    IN IF hits = {} THEN 0
       ELSE W.networkNodes[CHOOSE i \in hits : \A j \in hits : i <= j]

\* the loop without the test of intermediateNode.isActive
ViaAnyIntermediate(W, conn, toId) ==
    \E k \in 1..Len(conn) :
        /\ FindNode(W, conn[k]) # 0
        /\ Includes(W.nodeHeap[FindNode(W, conn[k])].connectedNodes, toId)

\* for (const intermediateId of fromNode.connectedNodes) { ... break }
RECURSIVE ViaIntermediate(_, _, _)
ViaIntermediate(W, conn, toId) ==
    IF conn = <<>> THEN FALSE
    ELSE LET intermediateNode == FindNode(W, Head(conn))
         IN IF /\ intermediateNode # 0
               /\ W.nodeHeap[intermediateNode].isActive
               /\ Includes(W.nodeHeap[intermediateNode].connectedNodes, toId)
            THEN TRUE
            ELSE ViaIntermediate(W, Tail(conn), toId)

\* a test that also follows a second active intermediate
CanReachTwoHops(W, fromNode, toId) ==
    \/ Includes(W.nodeHeap[fromNode].connectedNodes, toId)
    \/ \E k \in Range(W.nodeHeap[fromNode].connectedNodes) :
         /\ FindNode(W, k) # 0
         /\ W.nodeHeap[FindNode(W, k)].isActive
         /\ \/ Includes(W.nodeHeap[FindNode(W, k)].connectedNodes, toId)
            \/ ViaIntermediate(W, W.nodeHeap[FindNode(W, k)].connectedNodes,
                               toId)

\* the value of canReach when line 187 tests it
CanReach(W, fromNode, toId) ==
    IF Includes(W.nodeHeap[fromNode].connectedNodes, toId) THEN TRUE
    ELSE ViaIntermediate(W, W.nodeHeap[fromNode].connectedNodes, toId)

\* the checks with the path tested before the active flags
SendChecksPathFirst(W, fromId, toId) ==
    LET fromNode == FindNode(W, fromId)
        toNode == FindNode(W, toId)
    IN IF fromNode = 0 \/ toNode = 0 THEN "Node not found"
       ELSE IF ~CanReach(W, fromNode, toId) THEN "No path between nodes"
       ELSE IF ~W.nodeHeap[fromNode].isActive \/ ~W.nodeHeap[toNode].isActive
       THEN "One of the nodes is inactive"
       ELSE "accepted"

\* the three early returns, in the order of the code
SendChecks(W, fromId, toId) ==
    LET fromNode == FindNode(W, fromId)
        toNode == FindNode(W, toId)
    IN IF fromNode = 0 \/ toNode = 0 THEN "Node not found"
       ELSE IF ~W.nodeHeap[fromNode].isActive \/ ~W.nodeHeap[toNode].isActive
       THEN "One of the nodes is inactive"
       ELSE IF ~CanReach(W, fromNode, toId) THEN "No path between nodes"
       ELSE "accepted"

\* a rejection that comes after the sender's lastSeen was set
RejectSendTouched(W, fromId, toId, reason) ==
    [W EXCEPT !.nodeHeap = [r \in 1..Len(@) |->
                              IF r = FindNode(W, fromId)
                              THEN [@[r] EXCEPT !.lastSeen = W.now] ELSE @[r]],
              !.lastSend = [from |-> fromId, to |-> toId, result |-> reason,
                            msg |-> 0, before |-> Len(W.networkMessages)]]

\* reject(new Error(reason)); return
RejectSend(W, fromId, toId, reason) ==
    [W EXCEPT !.lastSend = [from |-> fromId, to |-> toId, result |-> reason,
                            msg |-> 0, before |-> Len(W.networkMessages)]]

\* const message = {...}; networkMessages.push(message)
CreateMessage(W, fromId, toId, type, content) ==
    LET m == Len(W.msgHeap) + 1
        message == [id |-> [ts |-> W.now, rnd |-> m], fromNodeId |-> fromId,
                    toNodeId |-> toId, type |-> type, content |-> content,
                    timestamp |-> W.now, delivered |-> FALSE]
    IN [W EXCEPT !.msgHeap = Append(@, message),
                 !.networkMessages = Append(@, m),
                 !.promise = Append(@, [state |-> "pending", value |-> NoRecord]),
                 !.lastSend = [from |-> fromId, to |-> toId,
                               result |-> "accepted", msg |-> m,
                               before |-> Len(W.networkMessages)]]

\* a creation write that stores the message as it is when the call is made
PersistSnapshot(W, m) ==
    [W EXCEPT !.tasks = Append(@, PutTask("messages", ValItem(W.msgHeap[m]),
                                          StoreCatch))]

\* addToStore('messages', message).catch(...)
PersistMessage(W, m) ==
    [W EXCEPT !.tasks = Append(@, PutTask("messages", MsgItem(m), StoreCatch))]

\* fromNode.lastSeen = Date.now(); toNode.lastSeen = Date.now(); and the two
\* addToStore('nodes', ...).catch(...)
TouchEndpoints(W, fromNode, toNode) ==
    [W EXCEPT !.nodeHeap = [r \in 1..Len(@) |->
                              IF r \in {fromNode, toNode}
                              THEN [@[r] EXCEPT !.lastSeen = W.now] ELSE @[r]],
              !.tasks = @ \o <<PutTask("nodes", NodeItem(fromNode), NoOwner),
                               PutTask("nodes", NodeItem(toNode), NoOwner)>>]

\* listener(message): the closure records what it was called with
CallListener(W, listener, m) ==
    [W EXCEPT !.calls = Append(@, [listener |-> listener, msg |-> m,
                                   delivered |-> W.msgHeap[m].delivered,
                                   scheduled |-> m \in W.timers])]

\* messageListeners.forEach(listener => listener(message)): forEach walks
\* the array it was called on
RECURSIVE NotifyEach(_, _, _)
NotifyEach(W, listeners, m) ==
    IF listeners = <<>> THEN W
    ELSE NotifyEach(CallListener(W, Head(listeners), m), Tail(listeners), m)

NotifyListeners(W, m) == NotifyEach(W, W.messageListeners, m)

\* setTimeout(() => {...}, 300 + Math.random() * 700)
ScheduleDelivery(W, m) == [W EXCEPT !.timers = @ \cup {m}]

\* lines 192-239, after the three checks have passed
AcceptSend(W, fromId, toId, type, content) ==
    LET m == Len(W.msgHeap) + 1
        W1 == CreateMessage(W, fromId, toId, type, content)
        W2 == PersistMessage(W1, m)
        W3 == TouchEndpoints(W2, FindNode(W, fromId), FindNode(W, toId))
        W4 == NotifyListeners(W3, m)
    IN ScheduleDelivery(W4, m)

Send(W, fromId, toId, type, content) ==
    LET outcome == SendChecks(W, fromId, toId)
    IN IF outcome = "accepted" THEN AcceptSend(W, fromId, toId, type, content)
       ELSE RejectSend(W, fromId, toId, outcome)

\* a timer callback that resolves only when the message record was written
DeliverWhenStored(W, m) ==
    IF W.msgHeap[m].id \in DOMAIN W.db.messages
    THEN [W EXCEPT !.msgHeap[m].delivered = TRUE,
                   !.tasks = Append(@, PutTask("messages", MsgItem(m),
                                                 StatusCatch)),
                   !.promise[m] = [state |-> "resolved",
                                   value |-> W.msgHeap[m].id],
                   !.timers = @ \ {m}]
    ELSE [W EXCEPT !.promise[m] = [state |-> "rejected", value |-> NoRecord],
                   !.timers = @ \ {m}]

\* a timer callback that notifies the listeners of the delivery
DeliverAndNotify(W, m) ==
    NotifyListeners(
        [W EXCEPT !.msgHeap[m].delivered = TRUE,
                  !.tasks = Append(@, PutTask("messages", MsgItem(m),
                                                 StatusCatch)),
                  !.promise[m] = [state |-> "resolved",
                                  value |-> W.msgHeap[m].id],
                  !.timers = @ \ {m}], m)

\* the timer callback of an accepted send
DeliverMessage(W, m) ==
    [W EXCEPT !.msgHeap[m].delivered = TRUE,
              !.tasks = Append(@, PutTask("messages", MsgItem(m),
                                                 StatusCatch)),
              !.promise[m] = [state |-> "resolved", value |-> W.msgHeap[m].id],
              !.timers = @ \ {m}]

\* subscribeToMessages(listener): messageListeners.push(listener)
SubscribeListener(W, listener) ==
    [W EXCEPT !.messageListeners = Append(@, listener),
              !.subAt = Append(@, Len(W.msgHeap)),
              !.unsubAt = Append(@, -1)]

\* a closure that filters with l === listener
UnsubscribeOthers(W, listener) ==
    [W EXCEPT !.messageListeners = SelectSeq(@, LAMBDA l : l = listener),
              !.unsubAt[listener] = IF @ = -1 THEN Len(W.msgHeap) ELSE @]

\* the returned closure: messageListeners.filter(l => l !== listener)
UnsubscribeListener(W, listener) ==
    [W EXCEPT !.messageListeners = SelectSeq(@, LAMBDA l : l # listener),
              !.unsubAt[listener] = IF @ = -1 THEN Len(W.msgHeap) ELSE @]

\* listener(message) for a listener whose body, when it is the listener
\* who, calls the unsubscribe closure of the listener whom
CallAndUnsubscribe(W, listener, m, who, whom) ==
    IF listener = who
    THEN UnsubscribeListener(CallListener(W, listener, m), whom)
    ELSE CallListener(W, listener, m)

\* a walk by index over the array messageListeners names at each step
RECURSIVE NotifyFrom(_, _, _, _, _)
NotifyFrom(W, i, m, who, whom) ==
    IF i > Len(W.messageListeners) THEN W
    ELSE NotifyFrom(CallAndUnsubscribe(W, W.messageListeners[i], m, who, whom),
                    i + 1, m, who, whom)

NotifyLive(W, m, who, whom) == NotifyFrom(W, 1, m, who, whom)

\* messageListeners.forEach(...): the walk goes over the array forEach was
\* called on, while the closure assigns a filtered copy to messageListeners
RECURSIVE NotifyEachUnsubscribing(_, _, _, _, _)
NotifyEachUnsubscribing(W, listeners, m, who, whom) ==
    IF listeners = <<>> THEN W
    ELSE NotifyEachUnsubscribing(
             CallAndUnsubscribe(W, Head(listeners), m, who, whom),
             Tail(listeners), m, who, whom)

NotifyUnsubscribing(W, m, who, whom) ==
    NotifyEachUnsubscribing(W, W.messageListeners, m, who, whom)

\* sendNetworkMessage while the listener who unsubscribes whom in its body
SendUnsubscribing(W, fromId, toId, who, whom) ==
    LET outcome == SendChecks(W, fromId, toId)
        m == Len(W.msgHeap) + 1
        W1 == CreateMessage(W, fromId, toId, "query", "ping")
        W2 == PersistMessage(W1, m)
        W3 == TouchEndpoints(W2, FindNode(W, fromId), FindNode(W, toId))
    IN IF outcome = "accepted"
       THEN ScheduleDelivery(NotifyUnsubscribing(W3, m, who, whom), m)
       ELSE RejectSend(W, fromId, toId, outcome)

(***************************************************************************)
(* generateCID.  A content string is the sequence of its character codes;  *)
(* a CID is a string.                                                      *)
(***************************************************************************)
\* A 32-bit integer is kept as its two's complement bit pattern, split in
\* two 16-bit halves [hi, lo].
Word(hi, lo) == [hi |-> hi % 65536, lo |-> lo % 65536]

\* hash << 4
ShiftLeft4(h) == Word(h.hi * 16 + ((h.lo * 16) \div 65536), h.lo * 16)

\* hash << 5
ShiftLeft5(h) == Word(h.hi * 32 + ((h.lo * 32) \div 65536), h.lo * 32)

\* a - b, wrapped to 32 bits
Sub32(a, b) ==
    LET lo == a.lo - b.lo
        borrow == IF lo < 0 THEN 1 ELSE 0
    IN Word(a.hi - b.hi - borrow + 65536, lo + 65536)

\* a + char for a UTF-16 code unit char, wrapped to 32 bits
AddChar32(a, char) == Word(a.hi + ((a.lo + char) \div 65536), a.lo + char)

\* for (let i = 0; i < content.length; i++) { hash = ((hash << 5) - hash)
\* + char; hash = hash & hash }: loop holds the hash and i
RECURSIVE HashLoop(_, _)
HashLoop(content, loop) ==
    IF loop.i > Len(content) THEN loop.hash
    ELSE HashLoop(content,
                  [hash |-> AddChar32(Sub32(ShiftLeft5(loop.hash), loop.hash),
                                      content[loop.i]),
                   i |-> loop.i + 1])

\* the loop entered with the given hash; a long string is taken 32
\* characters at a time
RECURSIVE HashFrom(_, _)
HashFrom(hash, content) ==
    IF Len(content) <= 32 THEN HashLoop(content, [hash |-> hash, i |-> 1])
    ELSE HashFrom(HashLoop(SubSeq(content, 1, 32), [hash |-> hash, i |-> 1]),
                  SubSeq(content, 33, Len(content)))

IsNegative32(h) == h.hi >= 32768

\* Math.abs(hash): the magnitude, which reaches 2^31 for hash = -2^31
Abs32(h) ==
    IF IsNegative32(h) THEN Sub32(Word(0, 0), h) ELSE h

HexDigit(d) ==
    CASE d = 0 -> "0" [] d = 1 -> "1" [] d = 2 -> "2" [] d = 3 -> "3"
      [] d = 4 -> "4" [] d = 5 -> "5" [] d = 6 -> "6" [] d = 7 -> "7"
      [] d = 8 -> "8" [] d = 9 -> "9" [] d = 10 -> "a" [] d = 11 -> "b"
      [] d = 12 -> "c" [] d = 13 -> "d" [] d = 14 -> "e" [] d = 15 -> "f"

\* n.toString(16) for an integer n >= 0
RECURSIVE ToHex(_)
ToHex(n) ==
    IF n < 16 THEN HexDigit(n) ELSE ToHex(n \div 16) \o HexDigit(n % 16)

\* str.padStart(width, '0')
RECURSIVE PadStart(_, _)
PadStart(str, width) ==
    IF Len(str) >= width THEN str ELSE PadStart("0" \o str, width)

\* n.toString(16) for the magnitude n = hi * 65536 + lo
MagnitudeToHex(n) ==
    IF n.hi = 0 THEN ToHex(n.lo)
    ELSE ToHex(n.hi) \o PadStart(ToHex(n.lo), 4)

GenerateCID(content) ==
    "Qm" \o PadStart(MagnitudeToHex(Abs32(HashFrom(Word(0, 0), content))), 44)

(***************************************************************************)
(* The content-addressed store (ipfsStorage.ts).  Every call is recorded   *)
(* in ipfsOps with its outcome; doneAt orders the calls by the moment      *)
(* their store request completed.                                          *)
(***************************************************************************)
\* getFromStore(storeName, id): no retry loop around it
ReadTask(storeName, key, owner) ==
    [op |-> "get", store |-> storeName, item |-> ValItem(NoRecord),
     key |-> key, retries |-> 1, attempts |-> 0, phase |-> "open",
     owner |-> owner]

\* deleteFromStore(storeName, id): no retry loop around it
DeleteTask(storeName, key, owner) ==
    [op |-> "delete", store |-> storeName, item |-> ValItem(NoRecord),
     key |-> key, retries |-> 1, attempts |-> 0, phase |-> "open",
     owner |-> owner]

\* getAllFromStore(storeName): no retry loop around it
GetAllTask(storeName, owner) ==
    [op |-> "getAll", store |-> storeName, item |-> ValItem(NoRecord),
     key |-> "", retries |-> 1, attempts |-> 0, phase |-> "open",
     owner |-> owner]

\* new Blob([content]).size: the UTF-8 length (surrogates are not modelled)
RECURSIVE ByteSize(_)
ByteSize(content) ==
    IF content = <<>> THEN 0
    ELSE IF Len(content) = 1
    THEN IF content[1] < 128 THEN 1 ELSE IF content[1] < 2048 THEN 2 ELSE 3
    ELSE LET half == Len(content) \div 2
         IN ByteSize(SubSeq(content, 1, half))
            + ByteSize(SubSeq(content, half + 1, Len(content)))

IpfsOwner(k) == [kind |-> "ipfs", id |-> k]

\* the calls of ops that have settled
SettledCalls(ops) == {j \in 1..Len(ops) : ops[j].status # "running"}

IpfsCall(ops, kind, content, cid, caller) ==
    [kind |-> kind, content |-> content, cid |-> cid, caller |-> caller,
     status |-> "running", result |-> NoRecord,
     startedAt |-> Cardinality(SettledCalls(ops)), doneAt |-> 0,
     arg |-> NoRecord, pc |-> "", read |-> NoRecord, wrote |-> NoRecord,
     caught |-> FALSE]

\* addToIPFS(content, metadata), up to its await addToStore
StartAddToIPFS(W, content, metadata, caller) ==
    LET k == Len(W.ipfsOps) + 1
        cid == GenerateCID(content)
        ipfsContent == [cid |-> cid, content |-> content,
                        timestamp |-> W.now, size |-> ByteSize(content),
                        type |-> "string", metadata |-> metadata]
    IN [W EXCEPT !.ipfsOps = Append(@, [IpfsCall(W.ipfsOps, "add", content,
                                                 cid, caller)
                                            EXCEPT !.arg = metadata]),
                 !.tasks = Append(@, PutTask("content", ValItem(ipfsContent),
                                             IpfsOwner(k)))]

\* getFromIPFS(cid), up to its await getFromStore
StartGetFromIPFS(W, cid, caller) ==
    LET k == Len(W.ipfsOps) + 1
    IN [W EXCEPT !.ipfsOps = Append(@, IpfsCall(W.ipfsOps, "get", <<>>, cid,
                                                    caller)),
                 !.tasks = Append(@, ReadTask("content", cid, IpfsOwner(k)))]

\* deleteContent(cid), up to its await deleteFromStore
StartDeleteContent(W, cid, caller) ==
    LET k == Len(W.ipfsOps) + 1
    IN [W EXCEPT !.ipfsOps = Append(@, IpfsCall(W.ipfsOps, "delete", <<>>,
                                                    cid, caller)),
                 !.tasks = Append(@, DeleteTask("content", cid, IpfsOwner(k)))]

\* listAllCIDs(), up to its await getAllFromStore
StartListAllCIDs(W, caller) ==
    LET k == Len(W.ipfsOps) + 1
    IN [W EXCEPT !.ipfsOps = Append(@, IpfsCall(W.ipfsOps, "list", <<>>, "",
                                                    caller)),
                 !.tasks = Append(@, GetAllTask("content", IpfsOwner(k)))]

\* searchContent(query), up to its await getAllFromStore
StartSearchContent(W, query, caller) ==
    LET k == Len(W.ipfsOps) + 1
    IN [W EXCEPT !.ipfsOps = Append(@, [IpfsCall(W.ipfsOps, "search", <<>>, "",
                                                 caller)
                                            EXCEPT !.arg = query]),
                 !.tasks = Append(@, GetAllTask("content", IpfsOwner(k)))]

\* updateContentMetadata(cid, metadata), up to its await getFromStore
StartUpdateContentMetadata(W, cid, metadata, caller) ==
    LET k == Len(W.ipfsOps) + 1
    IN [W EXCEPT !.ipfsOps = Append(@, [IpfsCall(W.ipfsOps, "update", <<>>,
                                                 cid, caller)
                                            EXCEPT !.arg = metadata,
                                                   !.pc = "read"]),
                 !.tasks = Append(@, ReadTask("content", cid, IpfsOwner(k)))]

\* an object without properties
NoMetadata == [key \in {} |-> 0]

\* { ...metadata, ...content.metadata }: the stored keys win
SpreadStoredLast(old, patch) ==
    LET own == IF old = NoRecord THEN [key \in {} |-> 0] ELSE old
    IN [key \in DOMAIN own \cup DOMAIN patch |->
           IF key \in DOMAIN own THEN own[key] ELSE patch[key]]

\* { ...content.metadata, ...metadata }: spreading undefined adds nothing
SpreadBoth(old, patch) ==
    LET own == IF old = NoRecord THEN NoMetadata ELSE old
    IN [key \in DOMAIN own \cup DOMAIN patch |->
           IF key \in DOMAIN patch THEN patch[key] ELSE own[key]]

\* a filter callback that is content with one matching key
MatchesSomeKey(item, query) ==
    IF item.metadata = NoRecord THEN FALSE
    ELSE \E key \in DOMAIN query :
             /\ key \in DOMAIN item.metadata
             /\ item.metadata[key] = query[key]

\* the filter callback of searchContent; a key the metadata does not have
\* reads as undefined, which no query value of the model equals
MatchesQuery(item, query) ==
    IF item.metadata = NoRecord THEN FALSE
    ELSE \A key \in DOMAIN query :
             /\ key \in DOMAIN item.metadata
             /\ item.metadata[key] = query[key]

Resolved(v) == [ok |-> TRUE, value |-> v]

Rejected(e) == [ok |-> FALSE, value |-> e]

\* what the call settles with, given how its store request settled
IpfsOutcome(op, settled) ==
    IF ~settled.ok THEN settled
    ELSE CASE op.kind = "add" -> Resolved(op.cid)
           [] op.kind = "get" -> IF settled.value = NoRecord
                                 THEN Rejected("Content not found")
                                 ELSE Resolved(settled.value.content)
           [] op.kind = "delete" -> Resolved(TRUE)
           [] op.kind = "list" ->
                Resolved([i \in 1..Len(settled.value) |-> settled.value[i].cid])
           [] op.kind = "search" ->
                Resolved(SelectSeq(settled.value,
                                   LAMBDA item : MatchesQuery(item, op.arg)))
           [] op.kind = "update" -> Resolved(op.pc = "write")

IpfsSettle(W, k, settled) ==
    LET out == IpfsOutcome(W.ipfsOps[k], settled)
        nDone == Cardinality(SettledCalls(W.ipfsOps))
    IN [W EXCEPT !.ipfsOps[k].status = IF out.ok THEN "resolved" ELSE "rejected",
                 !.ipfsOps[k].result = out.value,
                 !.ipfsOps[k].caught = "caught" \in DOMAIN settled,
                 !.ipfsOps[k].wrote =
                     IF /\ settled.ok
                        /\ \/ W.ipfsOps[k].kind = "add"
                           \/ W.ipfsOps[k].kind = "update"
                              /\ W.ipfsOps[k].pc = "write"
                     THEN settled.value ELSE NoRecord,
                 !.ipfsOps[k].doneAt = nDone + 1]

\* updateContentMetadata after getFromStore returned a record: merge the
\* metadata into it and await addToStore('content', content)
UpdateAfterRead(W, k, content) ==
    LET merged == [content EXCEPT
                      !.metadata = SpreadBoth(@, W.ipfsOps[k].arg)]
    IN [W EXCEPT !.ipfsOps[k].pc = "write",
                 !.ipfsOps[k].read = content,
                 !.tasks = Append(@, PutTask("content", ValItem(merged),
                                             IpfsOwner(k)))]

(***************************************************************************)
(* processQuery (llmSimulation.ts): pc names the await the call is         *)
(* suspended at.                                                           *)
(***************************************************************************)
IdlePq ==
    [status |-> "idle", query |-> <<>>, rng |-> 0, pc |-> "", path |-> <<>>,
     standardNodeId |-> "", ipfsNodeId |-> "", queryCid |-> "",
     response |-> <<>>, responseCid |-> "", awaiting |-> 0, error |-> ""]

\* generateResponse(prompt): one of five templates around
\* prompt.substring(0, 20); template k is abbreviated to the character k
GenerateResponse(prompt, x) ==
    <<65 + ((x * 5) \div 65537)>>
        \o SubSeq(prompt, 1, IF Len(prompt) < 20 THEN Len(prompt) ELSE 20)

\* const queryCid = await addToIPFS(query)
StartProcessQuery(W, query, seed) ==
    StartAddToIPFS([W EXCEPT !.pq = [IdlePq EXCEPT !.status = "running",
                                                  !.query = query,
                                                  !.rng = seed,
                                                  !.pc = "store"]],
                   query, NoRecord, "pq")

\* a processQuery that catches the error of an await and returns
PqSwallow(W, error) ==
    [W EXCEPT !.pq.status = "resolved"]

\* an awaited promise rejected: processQuery has no try/catch
PqThrow(W, error) ==
    [W EXCEPT !.pq.status = "rejected", !.pq.error = error]

\* await sendNetworkMessage(...): the executor runs at once; a rejection
\* is thrown at the await, an accepted send suspends until delivery
PqSend(W, fromId, toId, type, content, pc) ==
    LET W1 == Send(W, fromId, toId, type, content)
    IN IF W1.lastSend.result = "accepted"
       THEN [W1 EXCEPT !.pq.pc = pc, !.pq.awaiting = W1.lastSend.msg]
       ELSE PqThrow(W1, W1.lastSend.result)

\* the code after the await named by pq.pc, which resolved with value
PqResume(W, value) ==
    LET q == W.pq
        r == NextRandom(q.rng)
    IN CASE q.pc = "store" ->
              LET standardNodeId ==
                      "node-" \o ToString((r * NumStandard) \div 65537)
              IN PqSend([W EXCEPT !.pq.queryCid = value,
                                  !.pq.path = <<"client">>,
                                  !.pq.standardNodeId = standardNodeId,
                                  !.pq.rng = r],
                        "client", standardNodeId, "query", value, "hop1")
         [] q.pc = "hop1" ->
              PqSend([W EXCEPT !.pq.path = Append(@, q.standardNodeId)],
                     q.standardNodeId, "llm-main", "query", q.queryCid, "hop2")
         [] q.pc = "hop2" ->
              LET response == GenerateResponse(q.query, r)
                  r2 == NextRandom(r)
                  ipfsNodeId == "ipfs-" \o ToString((r2 * NumIpfs) \div 65537)
              IN PqSend([W EXCEPT !.pq.path = Append(@, "llm-main"),
                                  !.pq.response = response,
                                  !.pq.ipfsNodeId = ipfsNodeId,
                                  !.pq.rng = r2],
                        "llm-main", ipfsNodeId, "storage", response, "hop3")
         [] q.pc = "hop3" ->
              StartAddToIPFS([W EXCEPT !.pq.path = Append(@, q.ipfsNodeId),
                                       !.pq.pc = "store2"],
                             q.response, NoRecord, "pq")
         [] q.pc = "store2" ->
              PqSend([W EXCEPT !.pq.responseCid = value],
                     q.ipfsNodeId, q.standardNodeId, "response", value, "hop4")
         [] q.pc = "hop4" ->
              PqSend([W EXCEPT !.pq.path = Append(@, q.standardNodeId)],
                     q.standardNodeId, "client", "response", q.responseCid,
                     "hop5")
         [] q.pc = "hop5" ->
              [W EXCEPT !.pq.path = Append(@, "client"),
                        !.pq.status = "resolved"]

(***************************************************************************)
(* processDeAIQuery (llmSimulation.ts): pc names the await the call is     *)
(* suspended at.  Strings are sequences of character codes.                *)
(***************************************************************************)
\* n.toString() for an integer n >= 0
RECURSIVE DecimalCodes(_)
DecimalCodes(n) ==
    IF n < 10 THEN <<48 + n>> ELSE Append(DecimalCodes(n \div 10), 48 + (n % 10))

\* the characters of n.toString(16) for an integer n >= 0
RECURSIVE ToHexCodes(_)
ToHexCodes(n) ==
    LET d == n % 16
        code == IF d < 10 THEN 48 + d ELSE 87 + d
    IN IF n < 16 THEN <<code>> ELSE Append(ToHexCodes(n \div 16), code)

\* the characters of str.padStart(width, '0')
RECURSIVE PadStartCodes(_, _)
PadStartCodes(str, width) ==
    IF Len(str) >= width THEN str ELSE PadStartCodes(<<48>> \o str, width)

\* the characters of generateCID(content)
CidCodes(content) ==
    LET n == Abs32(HashFrom(Word(0, 0), content))
        hex == IF n.hi = 0 THEN ToHexCodes(n.lo)
               ELSE ToHexCodes(n.hi) \o PadStartCodes(ToHexCodes(n.lo), 4)
    IN <<81, 109>> \o PadStartCodes(hex, 44)

\* "Sorry, I couldn't get a response from DeAI."
Placeholder ==
    <<83, 111, 114, 114, 121, 44, 32, 73, 32, 99, 111, 117, 108, 100, 110,
    39, 116, 32, 103, 101, 116, 32, 97, 32, 114, 101, 115, 112, 111, 110,
    115, 101, 32, 102, 114, 111, 109, 32, 68, 101, 65, 73, 46>>

\* "Error communicating with DeAI: "
ErrorPrefix ==
    <<69, 114, 114, 111, 114, 32, 99, 111, 109, 109, 117, 110, 105, 99, 97,
    116, 105, 110, 103, 32, 119, 105, 116, 104, 32, 68, 101, 65, 73, 58,
    32>>

\* JSON.stringify({ type: 'query-deai-gemini-api', timestamp, queryText });
\* no text of the model needs an escape
QueryJson(timestamp, queryText) ==
    <<123, 34, 116, 121, 112, 101, 34, 58, 34, 113, 117, 101, 114, 121, 45,
    100, 101, 97, 105, 45, 103, 101, 109, 105, 110, 105, 45, 97, 112, 105,
    34, 44, 34, 116, 105, 109, 101, 115, 116, 97, 109, 112, 34, 58>>
        \o DecimalCodes(timestamp) \o
    <<44, 34, 113, 117, 101, 114, 121, 84, 101, 120, 116, 34, 58, 34>>
        \o queryText \o <<34, 125>>

\* JSON.stringify({ type: 'response-deai-gemini-api', queryCid, timestamp,
\* responseText, processingPathUsed: processingPath.join('->') })
ResponseJson(queryCid, timestamp, responseText) ==
    <<123, 34, 116, 121, 112, 101, 34, 58, 34, 114, 101, 115, 112, 111, 110,
    115, 101, 45, 100, 101, 97, 105, 45, 103, 101, 109, 105, 110, 105, 45,
    97, 112, 105, 34, 44, 34, 113, 117, 101, 114, 121, 67, 105, 100, 34, 58,
    34>>
        \o queryCid \o
    <<34, 44, 34, 116, 105, 109, 101, 115, 116, 97, 109, 112, 34, 58>>
        \o DecimalCodes(timestamp) \o
    <<44, 34, 114, 101, 115, 112, 111, 110, 115, 101, 84, 101, 120, 116, 34,
    58, 34>>
        \o responseText \o
    <<34, 44, 34, 112, 114, 111, 99, 101, 115, 115, 105, 110, 103, 80, 97,
    116, 104, 85, 115, 101, 100, 34, 58, 34, 117, 115, 101, 114, 45, 100,
    101, 118, 105, 99, 101, 45, 62, 103, 101, 109, 105, 110, 105, 45, 97,
    112, 105, 45, 115, 101, 114, 118, 105, 99, 101, 45, 62, 117, 115, 101,
    114, 45, 100, 101, 118, 105, 99, 101, 34, 125>>

\* ['user-device', 'gemini-api-service', 'user-device']
ProcessingPath == <<"user-device", "gemini-api-service", "user-device">>

NoSession == 0

\* the ChatSession objects model.startChat has returned, numbered in the
\* order of their creation
SessionsCreated(W) ==
    Cardinality({c \in 1..Len(W.deaiCalls) : W.deaiCalls[c].created})

\* the chat.sendMessage calls that have settled
SentMessages(W) ==
    Cardinality({c \in 1..Len(W.deaiCalls) : W.deaiCalls[c].aiDone > 0})

\* getDeAIChatSession(): if (!deaiChatSession) deaiChatSession =
\* model.startChat(...)
GetDeAIChatSession(W) ==
    IF W.deaiChatSession = NoSession
    THEN [W EXCEPT !.deaiChatSession = SessionsCreated(W) + 1]
    ELSE W

\* const chat = getDeAIChatSession(); let aiResponseText = "Sorry, ...";
\* await chat.sendMessage(query)
StartProcessDeAIQuery(W, query) ==
    LET W1 == GetDeAIChatSession(W)
    IN [W1 EXCEPT !.deaiCalls =
            Append(@, [status |-> "running", pc |-> "ai", query |-> query,
                       chat |-> W1.deaiChatSession,
                       created |-> W.deaiChatSession = NoSession,
                       aiStart |-> SentMessages(W), aiDone |-> 0,
                       aiOk |-> FALSE, aiResponseText |-> Placeholder,
                       queryCid |-> "", queryCidCodes |-> <<>>,
                       responseCid |-> "", ops |-> <<>>,
                       result |-> NoRecord])]

\* a catch block that leaves the session in place
DeaiCatchKeepsSession(W, c, error) ==
    [W EXCEPT !.deaiCalls[c].aiResponseText =
                  IF error.isError THEN ErrorPrefix \o error.text ELSE @]

\* catch (error): the message of an Error replaces the text, any other
\* thrown value leaves it; deaiChatSession = null
DeaiCatch(W, c, error) ==
    [W EXCEPT !.deaiCalls[c].aiResponseText =
                  IF error.isError THEN ErrorPrefix \o error.text ELSE @,
              !.deaiChatSession = NoSession]

\* an addToIPFS or updateContentMetadata of call c is started and awaited
DeaiAwait(W, c, pc) ==
    [W EXCEPT !.deaiCalls[c].pc = pc,
              !.deaiCalls[c].ops = Append(@, Len(W.ipfsOps))]

\* chat.sendMessage(query) settles: the rest of the try block or the catch
\* block, then const queryCid = await addToIPFS(JSON.stringify(...))
ChatSendSettled(W, c, outcome) ==
    LET W1 == [W EXCEPT !.deaiCalls[c].aiDone = SentMessages(W) + 1,
                        !.deaiCalls[c].aiOk = outcome.ok]
        W2 == IF outcome.ok
              THEN [W1 EXCEPT !.deaiCalls[c].aiResponseText = outcome.text]
              ELSE DeaiCatch(W1, c, outcome)
    IN DeaiAwait(StartAddToIPFS(W2, QueryJson(W.now, W.deaiCalls[c].query),
                                NoRecord, "deai"),
                 c, "query")

\* the content-store call op that call c awaits has settled; no await of
\* processDeAIQuery after the try block is guarded
DeaiResume(W, c, op) ==
    LET call == W.deaiCalls[c]
    IN IF op.status = "rejected"
       THEN [W EXCEPT !.deaiCalls[c].status = "rejected",
                      !.deaiCalls[c].result = op.result]
       ELSE CASE call.pc = "query" ->
                   DeaiAwait(
                       StartAddToIPFS(
                           [W EXCEPT !.deaiCalls[c].queryCid = op.result,
                                     !.deaiCalls[c].queryCidCodes =
                                         CidCodes(op.content)],
                           ResponseJson(CidCodes(op.content), W.now,
                                        call.aiResponseText),
                           NoRecord, "deai"),
                       c, "response")
              [] call.pc = "response" ->
                   DeaiAwait(
                       StartUpdateContentMetadata(
                           [W EXCEPT !.deaiCalls[c].responseCid = op.result],
                           call.queryCid,
                           [responseCid |-> op.result, processed |-> TRUE,
                            status |-> "DeAIProcessedWithGeminiAPI",
                            timestamp |-> W.now],
                           "deai"),
                       c, "update")
              [] call.pc = "update" ->
                   [W EXCEPT !.deaiCalls[c].status = "resolved",
                             !.deaiCalls[c].pc = "done",
                             !.deaiCalls[c].result =
                                 [response |-> call.aiResponseText,
                                  responseCid |-> call.responseCid,
                                  processingPath |-> ProcessingPath]]

\* the processDeAIQuery call that awaits content-store call k
AwaitedBy(W, k) ==
    CHOOSE c \in 1..Len(W.deaiCalls) :
        /\ W.deaiCalls[c].status = "running"
        /\ W.deaiCalls[c].ops # <<>>
        /\ W.deaiCalls[c].ops[Len(W.deaiCalls[c].ops)] = k

(***************************************************************************)
(* The backend simulation: initializeBackendServices, the recurring timer  *)
(* and its tick.  The texts handed to addToIPFS are JSON.stringify of      *)
(* objects with floating-point fields; each is abbreviated to the          *)
(* characters of the fields the model keeps.                               *)
(***************************************************************************)
RECURSIVE Concat(_)
Concat(parts) ==
    IF parts = <<>> THEN <<>> ELSE Head(parts) \o Concat(Tail(parts))

\* a service id, as the first letter of its type ("n" for analytics), "-"
\* and its index
IdCodes(id) ==
    LET named == {<<ServicePlan[j].type, i>> :
                     j \in 1..Len(ServicePlan), i \in 0..2}
        p == CHOOSE q \in named : q[1] \o "-" \o ToString(q[2]) = id
        letter == CASE p[1] = "api" -> 97 [] p[1] = "database" -> 100
                    [] p[1] = "compute" -> 99 [] p[1] = "storage" -> 115
                    [] OTHER -> 110
    IN <<letter, 45, 48 + p[2]>>

ServiceJson(service) ==
    IdCodes(service.id)
        \o (IF service.status = "online" THEN <<58, 111>> ELSE <<58, 100>>)
        \o DecimalCodes(service.processedRequests) \o <<64>>
        \o (IF service.lastRequest < 0 THEN <<>>
            ELSE DecimalCodes(service.lastRequest))
        \o <<91>>
        \o Concat([j \in 1..Len(service.connections) |->
                      IdCodes(service.connections[j])])
        \o <<93>>

\* JSON.stringify(backendServices)
ServicesJson(services) ==
    Concat([j \in 1..Len(services) |-> ServiceJson(services[j])])

\* the request types and the payloads, by their index in the arrays
RequestTypes == <<"read", "write", "compute", "query", "analyze">>

\* JSON.stringify(activityData)
ActivityJson(sourceService, targetService, request, t) ==
    IdCodes(sourceService) \o <<62>> \o IdCodes(targetService) \o <<35>>
        \o DecimalCodes(request.id.ts) \o <<45>> \o DecimalCodes(request.id.rnd)
        \o <<35>> \o DecimalCodes(request.typeIndex) \o <<64>>
        \o DecimalCodes(t) \o <<35>> \o DecimalCodes(request.payload)

\* JSON.stringify({ services, timestamp, metrics })
MetricsJson(services, t, totalRequests) ==
    ServicesJson(services) \o <<124>> \o DecimalCodes(t) \o <<124>>
        \o DecimalCodes(totalRequests) \o <<124>>
        \o DecimalCodes(Len(SelectSeq(services,
                                      LAMBDA o : o.status = "online")))

\* serviceRequests.slice(-100) when the log is longer
RequestLimit == 100

\* Math.random() > 0.95, > 0.7, > 0.8
StatusFlipDraw(x) == x * 20 > 19 * 65537

StoreActivityDraw(x) == x * 10 > 7 * 65537

SaveMetricsDraw(x) == x * 10 > 8 * 65537

\* the initializeBackendServices call that built the array backendServices
\* holds (0: the initial [])
CurrentArray(W) ==
    LET built == {c \in 1..Len(W.backendInits) : W.backendInits[c].built}
    IN IF built = {} THEN 0 ELSE CHOOSE c \in built : \A d \in built : d <= c

\* the position of the Math.random() stream: each initialization that
\* builds services starts from its seed, and the ticks go on from where the
\* last draw left it
Stream(W) ==
    IF CurrentArray(W) = 0 THEN 0 ELSE W.backendInits[CurrentArray(W)].rng

SaveStream(W, rng) ==
    IF CurrentArray(W) = 0 THEN W
    ELSE [W EXCEPT !.backendInits[CurrentArray(W)].rng = rng]

\* the Math.random() draws of one pass of the for loop of
\* simulateBackendActivity, in the order of the calls
Draws(rng) ==
    LET serviceIndex == NextRandom(rng)
        jitter == NextRandom(serviceIndex)
        flip == NextRandom(jitter)
        requestType == NextRandom(flip)
        idDraw == NextRandom(requestType)
        payload == NextRandom(idDraw)
        target == NextRandom(payload)
    IN [serviceIndex |-> serviceIndex, flip |-> flip,
        requestType |-> requestType, idDraw |-> idDraw, payload |-> payload,
        target |-> target, store |-> NextRandom(target)]

\* const request: ServiceRequest = {...} at time t
NewRequest(serviceId, d, t) ==
    [id |-> [ts |-> t, rnd |-> d.idDraw], serviceId |-> serviceId,
     typeIndex |-> IndexDraw(d.requestType, Len(RequestTypes)),
     type |-> RequestTypes[IndexDraw(d.requestType, Len(RequestTypes))],
     payload |-> IndexDraw(d.payload, 5), timestamp |-> t,
     completed |-> TRUE, cid |-> NoRecord, storeOp |-> 0]

\* the updates of the chosen service
Touch(services, i, d, t) ==
    [services EXCEPT ![i].lastRequest = t,
                     ![i].processedRequests = @ + 1,
                     ![i].status = IF ~StatusFlipDraw(d.flip) THEN @
                                   ELSE IF @ = "online" THEN "degraded"
                                   ELSE "online"]

\* the updates of the target service, found at index j
TouchTarget(services, j, t) ==
    [services EXCEPT ![j].lastRequest = t, ![j].processedRequests = @ + 1]

\* backendServices.find(s => s.id === targetServiceId), 0 when there is none
FindService(services, id) ==
    LET at == {j \in 1..Len(services) : services[j].id = id}
    IN IF at = {} THEN 0 ELSE CHOOSE k \in at : \A other \in at : k <= other

\* the data flow to the target service at index j (0: not found), and the
\* occasional storeServiceActivity
DataFlow(W, d, adds, request, touched, targetServiceId, j) ==
    IF j = 0
    THEN [world |-> [W EXCEPT !.backendServices = touched,
                              !.serviceRequests = Append(@, request)],
          rng |-> d.target, adds |-> adds]
    ELSE IF ~StoreActivityDraw(d.store)
    THEN [world |-> [W EXCEPT !.backendServices =
                                  TouchTarget(touched, j, W.now),
                              !.serviceRequests = Append(@, request)],
          rng |-> d.store, adds |-> adds]
    ELSE [world |->
             [W EXCEPT !.backendServices = TouchTarget(touched, j, W.now),
                       !.serviceRequests =
                           Append(@, [request EXCEPT
                                         !.storeOp = Len(W.ipfsOps)
                                                     + Len(adds) + 1])],
          rng |-> d.store,
          adds |-> Append(adds,
                          [content |-> ActivityJson(request.serviceId,
                                                    targetServiceId, request,
                                                    W.now),
                           metadata |-> [type |-> "service-activity",
                                         timestamp |-> W.now],
                           caller |-> "activity"])]

\* the choice of the target among the connections of the service
Connected(W, d, adds, service, request, touched, targetServiceId) ==
    DataFlow(W, d, adds, request, touched, targetServiceId,
             FindService(touched, targetServiceId))

\* the pass for the chosen service
ActivityAt(W, d, adds, service, request, touched) ==
    IF service.connections = <<>>
    THEN [world |-> [W EXCEPT !.backendServices = touched,
                              !.serviceRequests = Append(@, request)],
          rng |-> d.payload, adds |-> adds]
    ELSE Connected(W, d, adds, service, request, touched,
                   service.connections[IndexDraw(d.target,
                                                 Len(service.connections))])

ActivityOf(W, d, adds, i) ==
    ActivityAt(W, d, adds, W.backendServices[i],
               NewRequest(W.backendServices[i].id, d, W.now),
               Touch(W.backendServices, i, d, W.now))

ActivityWith(W, d, adds) ==
    ActivityOf(W, d, adds, IndexDraw(d.serviceIndex, Len(W.backendServices)))

\* one pass of the for loop of simulateBackendActivity at time W.now, the
\* addToIPFS calls of the tick so far being `adds`; no listener is
\* registered with subscribeToServiceUpdates, so the notifications call
\* nothing
Activity(W, rng, adds) == ActivityWith(W, Draws(rng), adds)

ActivitiesNext(a, activityCount) ==
    [world |-> a.world, rng |-> a.rng, adds |-> a.adds,
     activityCount |-> activityCount]

RECURSIVE Activities(_)
Activities(loop) ==
    IF loop.activityCount = 0 THEN loop
    ELSE Activities(ActivitiesNext(Activity(loop.world, loop.rng, loop.adds),
                                   loop.activityCount - 1))

\* the addToIPFS calls of one tick, in the order they were made
RECURSIVE AddAll(_, _)
AddAll(W, adds) ==
    IF adds = <<>> THEN W
    ELSE AddAll(StartAddToIPFS(W, Head(adds).content, Head(adds).metadata,
                               Head(adds).caller),
                Tail(adds))

\* the occasional save of the services after the loop
WithMetrics(done, save) ==
    IF ~SaveMetricsDraw(save) THEN done.adds
    ELSE Append(done.adds,
                [content |-> MetricsJson(done.world.backendServices,
                                         done.world.now,
                                         Len(done.world.serviceRequests)),
                 metadata |-> [type |-> "system-metrics",
                               timestamp |-> done.world.now],
                 caller |-> "metrics"])

\* if (serviceRequests.length > 100) serviceRequests = serviceRequests.slice(-100)
LimitRequests(W) ==
    [W EXCEPT !.serviceRequests =
                  IF Len(@) > RequestLimit
                  THEN SubSeq(@, Len(@) - RequestLimit + 1, Len(@))
                  ELSE @]

AfterLoop(done) ==
    SaveStream(LimitRequests(AddAll(done.world,
                                    WithMetrics(done, NextRandom(done.rng)))),
               NextRandom(done.rng))

ActivityLoop(W, count) ==
    AfterLoop(Activities([world |-> W, rng |-> count, adds |-> <<>>,
                          activityCount |-> 1 + ((count * 3) \div 65537)]))

LogTick(W, timer) ==
    [W EXCEPT !.backendLog = Append(@, [op |-> "tick", timer |-> timer,
                                        by |-> "timer"])]

\* simulateBackendActivity(), called by the interval timer or by
\* startBackendSimulation (timer 0), with the random stream at rng
SimulateBackendActivity(W, rng, timer) ==
    IF ~W.isBackendInitialized \/ Len(W.backendServices) = 0
    THEN LogTick(W, timer)
    ELSE ActivityLoop(LogTick(W, timer), NextRandom(rng))

\* array.sort((a, b) => b.timestamp - a.timestamp): the sort is stable and
\* in place
RECURSIVE SortNewestFirst(_)
SortNewestFirst(list) ==
    IF list = <<>> THEN <<>>
    ELSE LET newest == CHOOSE t \in {list[i].timestamp : i \in 1..Len(list)} :
                           \A i \in 1..Len(list) : list[i].timestamp <= t
         IN SelectSeq(list, LAMBDA r : r.timestamp = newest)
                \o SortNewestFirst(SelectSeq(list,
                                             LAMBDA r : r.timestamp # newest))

\* a sort of a copy, which leaves serviceRequests as it was
SortCopy(list) == list

\* serviceRequests.sort(...) of getServiceRequests, which sorts the array
\* serviceRequests names
SortInPlace(list) == SortNewestFirst(list)

\* getServiceRequests(limit); the slice it returns is a copy
GetServiceRequests(W) ==
    [W EXCEPT !.serviceRequests = SortInPlace(@),
              !.backendLog = Append(@, [op |-> "get", timer |-> 0,
                                        by |-> "caller"])]

\* clearInterval(id)
ClearInterval(W, id) == [W EXCEPT !.activeIntervals = @ \ {id}]

\* window.setInterval(...): the handles are 1, 2, ... in the order of the
\* calls
SetInterval(W) ==
    LET id == Cardinality({e \in 1..Len(W.backendLog) :
                              W.backendLog[e].op = "start"}) + 1
    IN [W EXCEPT !.activeIntervals = @ \cup {id}, !.simulationInterval = id]

\* a start that leaves the previous timer running
KeepPrevious(W) == W

\* if (simulationInterval) clearInterval(simulationInterval)
ClearPrevious(W) ==
    IF W.simulationInterval # 0 THEN ClearInterval(W, W.simulationInterval)
    ELSE W

\* startBackendSimulation(), called by `by`
LogStart(W, by) ==
    [W EXCEPT !.backendLog = Append(@, [op |-> "start",
                                        timer |-> W.simulationInterval,
                                        by |-> by])]

StartBackendSimulation(W, rng, by) ==
    SimulateBackendActivity(LogStart(SetInterval(ClearPrevious(W)), by),
                            rng, 0)

\* stopBackendSimulation()
StopBackendSimulation(W) ==
    LET W1 == IF W.simulationInterval # 0
              THEN [ClearInterval(W, W.simulationInterval)
                       EXCEPT !.simulationInterval = 0]
              ELSE W
    IN [W1 EXCEPT !.backendLog = Append(@, [op |-> "stop", timer |-> 0,
                                            by |-> "caller"])]

\* initializeBackendServices(forceReinit) up to its return or its await
\* addToIPFS
StartInitializeBackendServices(W, forceReinit, seed) ==
    LET c == Len(W.backendInits) + 1
        b == BuildServices(seed)
        call == [status |-> "running", forceReinit |-> forceReinit,
                 built |-> TRUE, rng |-> b.rng, op |-> Len(W.ipfsOps) + 1,
                 overlapped |-> \E d \in 1..Len(W.backendInits) :
                                   W.backendInits[d].status = "running",
                 started |-> FALSE, result |-> NoRecord]
    IN IF W.isBackendInitialized /\ ~forceReinit
       THEN [W EXCEPT !.backendInits =
                Append(@, [call EXCEPT !.status = "resolved",
                                       !.built = FALSE, !.op = 0,
                                       !.result = [array |-> CurrentArray(W)]])]
       ELSE StartAddToIPFS(
                [W EXCEPT !.backendServices = b.services,
                          !.serviceRequests = <<>>,
                          !.backendInits = Append(@, call)],
                ServicesJson(b.services),
                [type |-> "system-data", name |-> "backend-services",
                 timestamp |-> W.now],
                "backend")

\* isBackendInitialized = true; return backendServices
InitializeBackendReturn(W, c) ==
    [W EXCEPT !.isBackendInitialized = TRUE,
              !.backendInits[c].status = "resolved",
              !.backendInits[c].started = TRUE,
              !.backendInits[c].result = [array |-> CurrentArray(W)]]

\* the addToIPFS of call c settled: startBackendSimulation() and the
\* return, or the catch block and return []
InitializeBackendResume(W, c, op) ==
    IF op.status = "rejected"
    THEN [W EXCEPT !.backendInits[c].status = "resolved",
                   !.backendInits[c].result = [array |-> -1]]
    ELSE InitializeBackendReturn(
             StartBackendSimulation(W, Stream(W), "init"), c)

\* a content-store call of the backend simulation settled: the
\* initializeBackendServices awaiting it goes on, or storeServiceActivity
\* sets request.cid
BackendContinue(W, k, op) ==
    IF op.caller = "backend"
    THEN InitializeBackendResume(
             W, CHOOSE c \in 1..Len(W.backendInits) :
                    W.backendInits[c].op = k, op)
    ELSE IF op.caller = "activity" /\ op.status = "resolved"
    THEN [W EXCEPT !.serviceRequests =
             [j \in 1..Len(@) |-> IF @[j].storeOp = k
                                  THEN [@[j] EXCEPT !.cid = op.result]
                                  ELSE @[j]]]
    ELSE W

\* a content-store call settles; the call awaiting it goes on
IpfsContinue(W, k, settled) ==
    LET W1 == IpfsSettle(W, k, settled)
        op == W1.ipfsOps[k]
    IN IF /\ W.ipfsOps[k].kind = "update" /\ W.ipfsOps[k].pc = "read"
          /\ settled.ok /\ settled.value # NoRecord
       THEN UpdateAfterRead(W, k, settled.value)
       ELSE IF op.caller = "deai" THEN DeaiResume(W1, AwaitedBy(W1, k), op)
       ELSE IF op.caller \in {"backend", "activity"}
       THEN BackendContinue(W1, k, op)
       ELSE IF op.caller # "pq" THEN W1
       ELSE IF op.status = "resolved" THEN PqResume(W1, op.result)
       ELSE PqThrow(W1, op.result)

\* the timer callback, and the processQuery awaiting this delivery
Deliver(W, m) ==
    LET W1 == DeliverMessage(W, m)
    IN IF W1.pq.status = "running" /\ W1.pq.awaiting = m
          /\ W1.pq.pc \in {"hop1", "hop2", "hop3", "hop4", "hop5"}
       THEN PqResume(W1, W1.promise[m].value)
       ELSE W1

(***************************************************************************)
(* initializeNetwork: the construction, then the awaited writes.           *)
(***************************************************************************)
InitOwner(c) == [kind |-> "init", id |-> c]

\* lines 69-138: build newNodes, networkNodes = newNodes, and the first
\* await addToStore('nodes', node) of the for loop
StartInitializeNetwork(W, seed) ==
    LET newNodes == BuildNetwork(seed, W.now)
        base == Len(W.nodeHeap)
        refs == [i \in 1..Len(newNodes) |-> base + i]
        c == Len(W.inits) + 1
    IN [W EXCEPT !.nodeHeap = @ \o newNodes,
                 !.networkNodes = refs,
                 !.inits = Append(@, [status |-> "running", newNodes |-> refs,
                                      saving |-> 1]),
                 !.tasks = Append(@, PutTask("nodes", NodeItem(refs[1]),
                                             InitOwner(c)))]

\* setMetadata(key, value): addToStore('metadata', {key, value, updatedAt})
MetadataTask(W, key, value, owner) ==
    PutTask("metadata",
            ValItem([key |-> key, value |-> value, updatedAt |-> W.now]),
            owner)

\* the code after an await of call c: the next node of the loop, then
\* setMetadata, then isInitialized = true and the return; a rejected
\* write is thrown out of initializeNetwork
InitContinue(W, c, settled) ==
    LET call == W.inits[c]
        n == Len(call.newNodes)
    IN IF ~settled.ok THEN [W EXCEPT !.inits[c].status = "rejected"]
       ELSE IF call.saving < n
       THEN [W EXCEPT !.inits[c].saving = @ + 1,
                      !.tasks = Append(@, PutTask("nodes",
                                    NodeItem(call.newNodes[call.saving + 1]),
                                    InitOwner(c)))]
       ELSE IF call.saving = n
       THEN [W EXCEPT !.inits[c].saving = @ + 1,
                      !.tasks = Append(@, MetadataTask(W, "networkInitialized",
                                                       TRUE, InitOwner(c)))]
       ELSE [W EXCEPT !.inits[c].status = "resolved",
                      !.isInitialized = TRUE]

(***************************************************************************)
(* loadNetworkState: pc names the await the call is suspended at.          *)
(***************************************************************************)
LoadOwner(l) == [kind |-> "load", id |-> l]

\* const nodes = await getAllFromStore('nodes')
StartLoadNetworkState(W, seed) ==
    LET l == Len(W.loads) + 1
    IN [W EXCEPT !.loads = Append(@, [status |-> "running", pc |-> "nodes",
                                      seed |-> seed, nodes |-> <<>>,
                                      flag |-> "unread", failed |-> FALSE,
                                      fellBack |-> FALSE, calledInit |-> FALSE,
                                      awaiting |-> 0]),
                 !.tasks = Append(@, GetAllTask("nodes", LoadOwner(l)))]

\* if (nodes.length > 0) networkNodes = nodes: the array of fresh objects
\* the read returned
AdoptNodes(W, nodes) ==
    IF Len(nodes) = 0 THEN W
    ELSE [W EXCEPT !.nodeHeap = @ \o nodes,
                   !.networkNodes = [i \in 1..Len(nodes) |->
                                        Len(W.nodeHeap) + i]]

\* if (messages.length > 0) networkMessages = messages; no promise belongs
\* to a loaded message
AdoptMessages(W, messages) ==
    IF Len(messages) = 0 THEN W
    ELSE [W EXCEPT !.msgHeap = @ \o messages,
                   !.networkMessages = [i \in 1..Len(messages) |->
                                           Len(W.msgHeap) + i],
                   !.promise = @ \o [i \in 1..Len(messages) |->
                                       [state |-> "loaded", value |-> NoRecord]]]

\* await initializeNetwork(), from the try block (pc "init") or from the
\* catch block (pc "fallback")
LoadCallInit(W, l, pc) ==
    LET W1 == StartInitializeNetwork(W, W.loads[l].seed)
    IN [W1 EXCEPT !.loads[l].pc = pc,
                  !.loads[l].calledInit = TRUE,
                  !.loads[l].fellBack = (pc = "fallback"),
                  !.loads[l].awaiting = Len(W1.inits)]

\* the await named by pc threw inside the try block
LoadThrows(call, settled) == call.pc # "fallback" /\ ~settled.ok

\* the try block from the await named by pc, which returned settled.value,
\* up to the next await or the end of the block
LoadTry(W, l, settled) ==
    LET call == W.loads[l]
    IN CASE call.pc = "nodes" ->
              [W EXCEPT !.loads[l].nodes = settled.value,
                        !.loads[l].pc = "messages",
                        !.tasks = Append(@, GetAllTask("messages",
                                                       LoadOwner(l)))]
         [] call.pc = "messages" ->
              LET W1 == AdoptMessages(AdoptNodes(W, call.nodes), settled.value)
              IN [W1 EXCEPT !.loads[l].pc = "meta",
                            !.tasks = Append(@, ReadTask("metadata",
                                                         "networkInitialized",
                                                         LoadOwner(l)))]
         [] call.pc = "meta" ->
              LET initialized == IF settled.value = NoRecord THEN FALSE
                                 ELSE settled.value.value
              IN [W EXCEPT !.isInitialized = initialized,
                           !.loads[l].flag = IF initialized THEN "set"
                                             ELSE "unset"]
         [] OTHER -> W

\* the code after the await named by pc, which settled as given: the rest
\* of the try block, or catch (error) { if (!isInitialized) await
\* initializeNetwork() }
LoadResume(W, l, settled) ==
    LET call == W.loads[l]
        thrown == LoadThrows(call, settled)
        W1 == IF thrown THEN [W EXCEPT !.loads[l].failed = TRUE]
              ELSE LoadTry(W, l, settled)
        callsInit == /\ ~W1.isInitialized
                     /\ thrown \/ call.pc = "meta"
        returns == thrown \/ call.pc \in {"meta", "init", "fallback"}
    IN IF callsInit
       THEN LoadCallInit(W1, l, IF thrown THEN "fallback" ELSE "init")
       ELSE IF returns
       THEN [W1 EXCEPT !.loads[l].status =
                           IF call.pc = "fallback" /\ ~settled.ok
                           THEN "rejected" ELSE "resolved",
                       !.loads[l].pc = "done"]
       ELSE W1

\* an awaited write of initializeNetwork call c settles; when the call
\* returns or throws, the loadNetworkState awaiting it goes on
InitSettle(W, c, settled) ==
    LET W1 == InitContinue(W, c, settled)
        waiting == {l \in 1..Len(W1.loads) :
                       /\ W1.loads[l].status = "running"
                       /\ W1.loads[l].awaiting = c}
    IN IF W1.inits[c].status = "running" \/ waiting = {} THEN W1
       ELSE LoadResume(W1, CHOOSE l \in waiting : TRUE,
                       IF W1.inits[c].status = "resolved"
                       THEN [ok |-> TRUE, value |-> W1.inits[c].newNodes]
                       ELSE [ok |-> FALSE, value |-> settled.value])

(***************************************************************************)
(* updateNodeStatus and getActiveNodes: pc names the await the call is     *)
(* suspended at.                                                           *)
(***************************************************************************)
UpdateOwner(u) == [kind |-> "update", id |-> u]

\* const node = await getFromStore('nodes', nodeId)
StartUpdateNodeStatus(W, nodeId, isActive) ==
    LET u == Len(W.updates) + 1
    IN [W EXCEPT !.updates = Append(@, [status |-> "running", pc |-> "get",
                                        nodeId |-> nodeId,
                                        isActive |-> isActive,
                                        node |-> NoRecord, result |-> "none",
                                        ref |-> 0]),
                 !.tasks = Append(@, ReadTask("nodes", nodeId, UpdateOwner(u)))]

\* networkNodes.findIndex(n => n.id === nodeId), 0 for -1
FindIndex(W, nodeId) ==
    LET hits == {i \in 1..Len(W.networkNodes) :
                    W.nodeHeap[W.networkNodes[i]].id = nodeId}
    IN IF hits = {} THEN 0 ELSE CHOOSE i \in hits : \A j \in hits : i <= j

\* the update in memory without the test of the index: a node that is not
\* in the list is appended
ReplaceOrAppend(W, u) ==
    LET index == FindIndex(W, W.updates[u].nodeId)
        ref == Len(W.nodeHeap) + 1
    IN [W EXCEPT !.nodeHeap = Append(@, W.updates[u].node),
                 !.networkNodes = IF index = 0 THEN Append(@, ref)
                                  ELSE [@ EXCEPT ![index] = ref],
                 !.updates[u].ref = ref]

\* if (index !== -1) networkNodes[index] = node
ReplaceInMemory(W, u) ==
    LET index == FindIndex(W, W.updates[u].nodeId)
        ref == Len(W.nodeHeap) + 1
    IN IF index = 0 THEN W
       ELSE [W EXCEPT !.nodeHeap = Append(@, W.updates[u].node),
                      !.networkNodes[index] = ref,
                      !.updates[u].ref = ref]

\* return node
UpdateReturn(W, u) ==
    [W EXCEPT !.updates[u].status = "resolved", !.updates[u].pc = "done",
              !.updates[u].result = "node"]

\* the code after the await named by pc, which settled as given; neither
\* await stands in a try block
UpdateResume(W, u, settled) ==
    LET call == W.updates[u]
    IN IF ~settled.ok
       THEN [W EXCEPT !.updates[u].status = "rejected",
                      !.updates[u].pc = "done"]
       ELSE IF call.pc = "put" THEN UpdateReturn(ReplaceInMemory(W, u), u)
       ELSE IF settled.value = NoRecord
       THEN [W EXCEPT !.updates[u].status = "resolved",
                      !.updates[u].pc = "done", !.updates[u].result = "null"]
       ELSE [W EXCEPT !.updates[u].pc = "put",
                      !.updates[u].node =
                          [settled.value EXCEPT !.isActive = call.isActive,
                                                !.lastSeen = W.now],
                      !.tasks =
                          Append(@, PutTask("nodes",
                                            ValItem([settled.value EXCEPT
                                                        !.isActive =
                                                            call.isActive,
                                                        !.lastSeen = W.now]),
                                            UpdateOwner(u)))]

\* getActiveNodes(): the ids of networkNodes.filter(node => node.isActive)
GetActiveNodes(W) ==
    LET active == SelectSeq(W.networkNodes,
                            LAMBDA ref : W.nodeHeap[ref].isActive)
    IN [i \in 1..Len(active) |-> W.nodeHeap[active[i]].id]

(***************************************************************************)
(* store.getAll(): the records in ascending key order.  Keys are strings   *)
(* and IndexedDB compares them code unit by code unit.                     *)
(***************************************************************************)
\* the node ids in string order: "ipfs-" < "llm-" < "node-", and "node-1" <
\* "node-10" < "node-2"
SortedNodeIds ==
    <<"ipfs-0", "ipfs-1", "ipfs-2", "ipfs-3", "ipfs-4", "llm-main",
      "node-0", "node-1", "node-10", "node-11", "node-12", "node-13",
      "node-14", "node-2", "node-3", "node-4", "node-5", "node-6", "node-7",
      "node-8", "node-9">>

\* a content id is 'Qm' and 44 lowercase hexadecimal digits, so the string
\* order of two ids is the order of the numbers they spell.  A message id
\* is 'msg-', the creation time and a random suffix: time first, then
\* suffix
KeyBefore(storeName, r1, r2) ==
    CASE storeName = "content" ->
           LET m1 == Abs32(HashFrom(Word(0, 0), r1.content))
               m2 == Abs32(HashFrom(Word(0, 0), r2.content))
           IN m1.hi < m2.hi \/ (m1.hi = m2.hi /\ m1.lo < m2.lo)
      [] storeName = "messages" ->
           \/ r1.id.ts < r2.id.ts
           \/ r1.id.ts = r2.id.ts /\ r1.id.rnd < r2.id.rnd
      [] OTHER -> FALSE

\* the records of a set, least key first
RECURSIVE InKeyOrder(_, _)
InKeyOrder(storeName, records) ==
    IF records = {} THEN <<>>
    ELSE LET first == CHOOSE r \in records :
                          \A q \in records \ {r} :
                              ~KeyBefore(storeName, q, r)
         IN <<first>> \o InKeyOrder(storeName, records \ {first})

\* store.getAll()
StoreGetAll(store, storeName) ==
    IF storeName = "nodes"
    THEN LET present == SelectSeq(SortedNodeIds, LAMBDA id : id \in DOMAIN store)
         IN [i \in 1..Len(present) |-> store[present[i]]]
    ELSE InKeyOrder(storeName, {store[k] : k \in DOMAIN store})

\* the catch block of getAllFromStore: return []
CaughtEmpty == [ok |-> TRUE, value |-> <<>>, caught |-> TRUE]

(***************************************************************************)
(* One IndexedDB request of a pending operation (databaseManager.ts).      *)
(*                                                                         *)
(* tasks is ordered: IndexedDB serves the open requests made on one        *)
(* database in the order they were made, and the 300 ms timers of the      *)
(* retry loop fire in the order they were set.  An operation that changes  *)
(* phase goes to the end, so the operations of one phase stand in the      *)
(* order they entered it and the first of them is the next to be served.   *)
(***************************************************************************)
\* the operation of this phase that is served next (0: none)
NextInPhase(pending, phase) ==
    LET at == {i \in 1..Len(pending) : pending[i].phase = phase}
    IN IF at = {} THEN 0 ELSE CHOOSE i \in at : \A j \in at : i <= j

\* the clone store.put(item) takes of its argument
ItemValue(W, item) ==
    CASE item.kind = "node" -> W.nodeHeap[item.ref]
      [] item.kind = "msg" -> W.msgHeap[item.ref]
      [] OTHER -> item.val

\* the message an addToStore call writes (0: it writes something else)
WrittenMessage(task) ==
    IF task.op = "put" /\ task.item.kind = "msg" THEN task.item.ref ELSE 0

\* the promise of operation i settles: the operation leaves tasks and the
\* code awaiting it goes on; a fire-and-forget write only logs in .catch
Settle(W, i, settled) ==
    LET task == W.tasks[i]
        W1 == [W EXCEPT !.tasks = RemoveAt(@, i),
                        !.finished =
                            IF task.op = "put"
                            THEN @ \cup {[attempts |-> task.attempts + 1,
                                          ok |-> settled.ok,
                                          msg |-> WrittenMessage(task),
                                          handler |-> task.owner.id,
                                          nth |-> Cardinality(
                                              {f \in W.finished :
                                                 /\ f.msg # 0
                                                 /\ f.msg = WrittenMessage(task)}),
                                          error |-> IF settled.ok THEN ""
                                                    ELSE settled.value]}
                            ELSE @,
                        !.reads =
                            IF task.op = "getAll"
                            THEN @ \cup {[store |-> task.store,
                                          ok |-> settled.ok,
                                          caught |-> "caught" \in DOMAIN settled]}
                            ELSE @]
    IN CASE task.owner.kind = "ipfs" -> IpfsContinue(W1, task.owner.id, settled)
         [] task.owner.kind = "init" -> InitSettle(W1, task.owner.id, settled)
         [] task.owner.kind = "load" -> LoadResume(W1, task.owner.id, settled)
         [] task.owner.kind = "update" ->
              UpdateResume(W1, task.owner.id, settled)
         [] OTHER -> W1

\* initDatabase resolves and the request succeeds (request.onsuccess)
RequestSucceeds(W, i) ==
    LET task == W.tasks[i]
        store == W.db[task.store]
    IN CASE task.op = "put" ->
              LET item == ItemValue(W, task.item)
              IN Settle([W EXCEPT !.db[task.store] =
                                      StorePut(store, task.store, item)],
                        i, Resolved(item))
         [] task.op = "get" -> Settle(W, i, Resolved(StoreGet(store, task.key)))
         [] task.op = "getAll" ->
              Settle(W, i, Resolved(StoreGetAll(store, task.store)))
         [] task.op = "delete" ->
              Settle([W EXCEPT !.db[task.store] = StoreDelete(store, task.key)],
                     i, Resolved(TRUE))

\* await initDatabase() throws.  addToStore catches it: retries--, rethrow
\* at 0, else wait 300 ms and loop; getAllFromStore catches it and returns
\* []; the other operations have no catch
OpenFails(W, i) ==
    LET task == W.tasks[i]
        W1 == [W EXCEPT !.faults = IF W.backendDown THEN @ ELSE @ + 1]
    IN IF task.op = "put" /\ task.retries - 1 > 0
       THEN [W1 EXCEPT !.tasks =
                           Append(RemoveAt(@, i),
                                  [task EXCEPT !.retries = @ - 1,
                                               !.attempts = @ + 1,
                                               !.phase = "sleep"])]
       ELSE IF task.op = "getAll" THEN Settle(W1, i, CaughtEmpty)
       ELSE Settle(W1, i, Rejected("open failed"))

\* request.onerror / transaction.onerror: reject(request.error).  The
\* promise was returned, not awaited, inside the try block, so the
\* rejection goes to the caller and not to the catch
RequestFails(W, i) ==
    Settle([W EXCEPT !.faults = @ + 1], i, Rejected("request failed"))

\* the 300 ms setTimeout of the retry loop fires
RetryAfterDelay(W, i) ==
    [W EXCEPT !.tasks = Append(RemoveAt(@, i), [W.tasks[i] EXCEPT !.phase = "open"])]

(***************************************************************************)
(* Inputs.                                                                 *)
(***************************************************************************)
\* the query of processDeAIQuery: "hi"
DeaiQueries == {<<104, 105>>}

\* how chat.sendMessage settles: a response with the text "ok", an Error
\* with the message "quota", a thrown value that is no Error
SendOutcomes ==
    {[ok |-> TRUE, isError |-> FALSE, text |-> <<111, 107>>],
     [ok |-> FALSE, isError |-> TRUE, text |-> <<113, 117, 111, 116, 97>>],
     [ok |-> FALSE, isError |-> FALSE, text |-> <<>>]}

\* the ids sends are tried between: a name that is no node, the llm node
\* and three standard nodes
SendIds == {"client", "llm-main", "node-0", "node-10", "node-13"}

\* the ids the sends of the listener checks are tried between
ListenerSendIds == {"client", "llm-main", "node-13"}

\* "", "Aa" and "BB", which has the hash of "Aa"
Contents == {<<>>, <<65, 97>>, <<66, 66>>}

\* two strings of one id
StoreContents == {<<65, 97>>, <<66, 66>>}

\* "A" and "Aa", two strings of different ids
ListContents == {<<65>>, <<65, 97>>}

\* the id of "A"
ListCids == {GenerateCID(<<65>>)}

\* the metadata a record is stored with: undefined, or { b: 1 }
StoredMetadata == {NoRecord, [b |-> 1]}

\* the patches of updateContentMetadata: { a: 1 } and { a: 2, b: 3 }
Patches == {[a |-> 1], [a |-> 2, b |-> 3]}

\* the records searched: "A" without metadata or with { a: 1, b: 2 }, and
\* "Aa" with {}
SearchedRecords ==
    {[content |-> <<65>>, metadata |-> NoRecord],
     [content |-> <<65>>, metadata |-> [a |-> 1, b |-> 2]],
     [content |-> <<65, 97>>, metadata |-> NoMetadata]}

\* the queries of searchContent: {}, { a: 1 } and { a: 1, b: 3 }
Queries == {NoMetadata, [a |-> 1], [a |-> 1, b |-> 3]}

\* strings for generateCID: "", "A", "Aa", "BB", "zzzzzz" and "zzzzzzz"
\* (the hash wraps), five times the code unit 0xFFFF, and "Gye:e~", whose
\* hash is -2^31
CidContents ==
    {<<>>, <<65>>, <<65, 97>>, <<66, 66>>, <<122, 122, 122, 122, 122, 122>>,
     <<122, 122, 122, 122, 122, 122, 122>>,
     <<65535, 65535, 65535, 65535, 65535>>, <<71, 121, 101, 58, 101, 126>>}

\* Date.now() when a macrotask starts: time has passed since the last one,
\* or not
Times == {t \in {now, now + 1} : t <= MaxTime}

(***************************************************************************)
(* Initial states.                                                         *)
(***************************************************************************)
\* the module has been evaluated and nothing has run yet, on an empty
\* database
Blank ==
    [now |-> 0, nodeHeap |-> <<>>, networkNodes |-> <<>>, msgHeap |-> <<>>,
     networkMessages |-> <<>>, messageListeners |-> <<>>,
     isInitialized |-> FALSE, db |-> EmptyDb, tasks |-> <<>>,
     backendDown |-> FALSE, faults |-> 0,
     timers |-> {}, promise |-> <<>>, lastSend |-> NoSend, calls |-> <<>>, subAt |-> <<>>,
     unsubAt |-> <<>>, finished |-> {}, inits |-> <<>>, ipfsOps |-> <<>>,
     pq |-> IdlePq, reads |-> {}, loads |-> <<>>,
     deaiChatSession |-> 0, deaiCalls |-> <<>>, backendServices |-> <<>>,
     serviceRequests |-> <<>>, isBackendInitialized |-> FALSE,
     simulationInterval |-> 0, activeIntervals |-> {}, backendInits |-> <<>>,
     backendLog |-> <<>>, updates |-> <<>>]

\* an initializeNetwork call has run to its end without a failed write
Initialized(seed) ==
    LET newNodes == BuildNetwork(seed, 0)
    IN [Blank EXCEPT
          !.nodeHeap = newNodes,
          !.networkNodes = [i \in 1..Len(newNodes) |-> i],
          !.isInitialized = TRUE,
          !.db = [EmptyDb EXCEPT
                    !.nodes = [id \in {newNodes[i].id : i \in 1..Len(newNodes)}
                                 |-> CHOOSE n \in Range(newNodes) : n.id = id],
                    !.metadata = [k \in {"networkInitialized"} |->
                                    [key |-> k, value |-> TRUE,
                                     updatedAt |-> 0]]]]

IsWorld(W) ==
    /\ now = W.now
    /\ nodeHeap = W.nodeHeap
    /\ networkNodes = W.networkNodes
    /\ msgHeap = W.msgHeap
    /\ networkMessages = W.networkMessages
    /\ messageListeners = W.messageListeners
    /\ isInitialized = W.isInitialized
    /\ db = W.db
    /\ tasks = W.tasks
    /\ backendDown = W.backendDown
    /\ faults = W.faults
    /\ timers = W.timers
    /\ promise = W.promise
    /\ lastSend = W.lastSend
    /\ calls = W.calls
    /\ subAt = W.subAt
    /\ unsubAt = W.unsubAt
    /\ finished = W.finished
    /\ inits = W.inits
    /\ ipfsOps = W.ipfsOps
    /\ pq = W.pq
    /\ reads = W.reads
    /\ loads = W.loads
    /\ deaiChatSession = W.deaiChatSession
    /\ deaiCalls = W.deaiCalls
    /\ backendServices = W.backendServices
    /\ serviceRequests = W.serviceRequests
    /\ isBackendInitialized = W.isBackendInitialized
    /\ simulationInterval = W.simulationInterval
    /\ activeIntervals = W.activeIntervals
    /\ backendInits = W.backendInits
    /\ backendLog = W.backendLog
    /\ updates = W.updates

InitBlank == \E down \in BOOLEAN : IsWorld([Blank EXCEPT !.backendDown = down])

InitNetwork ==
    \E seed \in Seeds, down \in BOOLEAN :
        IsWorld([Initialized(seed) EXCEPT !.backendDown = down])

InitHealthy == \E seed \in Seeds : IsWorld(Initialized(seed))

\* a freshly loaded module over a working backend
InitFresh == IsWorld(Blank)

\* a freshly loaded module over the database an earlier session left: the
\* nodes of a completed initializeNetwork, the flag, and one delivered
\* message
Persisted(seed) ==
    [Blank EXCEPT
       !.db = [Initialized(seed).db EXCEPT
                 !.messages =
                     [id \in {[ts |-> 0, rnd |-> 1]} |->
                         [id |-> id, fromNodeId |-> "llm-main",
                          toNodeId |-> "node-13", type |-> "query",
                          content |-> "ping", timestamp |-> 0,
                          delivered |-> TRUE]]]]

\* the module is loaded on a first visit (empty database, available or
\* not) or on a later one
InitLoad ==
    \/ InitBlank
    \/ \E seed \in Seeds : IsWorld(Persisted(seed))

(***************************************************************************)
(* Actions: one per macrotask.                                             *)
(***************************************************************************)
\* a caller invokes sendNetworkMessage(fromId, toId, 'query', 'ping')
SendNetworkMessage(fromId, toId) ==
    /\ Len(msgHeap) < MaxMessages
    /\ \E t \in Times :
         Commit(Send([Start EXCEPT !.now = t], fromId, toId, "query", "ping"))

\* the delivery timer of message m fires
DeliveryTimerFires(m) ==
    /\ m \in timers
    /\ Commit(Deliver(Start, m))

\* a component subscribes with a fresh closure
SubscribeToMessages ==
    /\ Len(subAt) < NumListeners
    /\ Commit(SubscribeListener(Start, Len(subAt) + 1))

\* somebody calls the unsubscribe function subscribeToMessages returned
Unsubscribe(listener) ==
    /\ listener \in 1..Len(subAt)
    /\ Commit(UnsubscribeListener(Start, listener))

\* a caller invokes sendNetworkMessage while the body of listener who calls
\* the unsubscribe function of listener whom
SendWhileUnsubscribing(fromId, toId, who, whom) ==
    /\ Len(msgHeap) < MaxMessages
    /\ who \in 1..Len(subAt)
    /\ whom \in 1..Len(subAt)
    /\ Commit(SendUnsubscribing(Start, fromId, toId, who, whom))

DbRequestSucceeds(i) ==
    /\ i = NextInPhase(tasks, "open")
    /\ ~backendDown
    /\ Commit(RequestSucceeds(Start, i))

\* a transient failure of indexedDB.open
DbOpenFails(i) ==
    /\ i = NextInPhase(tasks, "open")
    /\ ~backendDown
    /\ faults < MaxFaults
    /\ Commit(OpenFails(Start, i))

\* indexedDB.open fails because the backend is unavailable
DbUnavailable(i) ==
    /\ i = NextInPhase(tasks, "open")
    /\ backendDown
    /\ Commit(OpenFails(Start, i))

DbRequestFails(i) ==
    /\ i = NextInPhase(tasks, "open")
    /\ ~backendDown
    /\ faults < MaxFaults
    /\ Commit(RequestFails(Start, i))

DbRetryDelay(i) ==
    /\ i = NextInPhase(tasks, "sleep")
    /\ Commit(RetryAfterDelay(Start, i))

\* initializeNetwork is called while no other call of it is running
InitializeNetwork(seed) ==
    /\ Len(inits) < MaxInits
    /\ \A c \in 1..Len(inits) : inits[c].status # "running"
    /\ \E t \in Times : Commit(StartInitializeNetwork([Start EXCEPT !.now = t],
                                                      seed))

AddToIPFS(content) ==
    /\ Len(ipfsOps) < MaxOps
    /\ \E t \in Times :
         Commit(StartAddToIPFS([Start EXCEPT !.now = t], content, NoRecord,
                               "ui"))

GetFromIPFS(cid) ==
    /\ Len(ipfsOps) < MaxOps
    /\ Commit(StartGetFromIPFS(Start, cid, "ui"))

DeleteContent(cid) ==
    /\ Len(ipfsOps) < MaxOps
    /\ Commit(StartDeleteContent(Start, cid, "ui"))

\* addToIPFS(content, metadata)
AddWithMetadata(content, metadata) ==
    /\ Len(ipfsOps) < MaxOps
    /\ \E t \in Times :
         Commit(StartAddToIPFS([Start EXCEPT !.now = t], content, metadata,
                               "ui"))

ListAllCIDs ==
    /\ Len(ipfsOps) < MaxOps
    /\ Commit(StartListAllCIDs(Start, "ui"))

SearchContent(query) ==
    /\ Len(ipfsOps) < MaxOps
    /\ Commit(StartSearchContent(Start, query, "ui"))

UpdateContentMetadata(cid, metadata) ==
    /\ Len(ipfsOps) < MaxOps
    /\ Commit(StartUpdateContentMetadata(Start, cid, metadata, "ui"))

\* loadNetworkState() is called (at module load, by NetworkPage) while no
\* other call of it is running; seed is the Math.random stream of the
\* initializeNetwork it may call
LoadNetworkState(seed) ==
    /\ Len(loads) < MaxLoads
    /\ \A l \in 1..Len(loads) : loads[l].status # "running"
    /\ Commit(StartLoadNetworkState(Start, seed))

\* a caller invokes updateNodeStatus(nodeId, isActive)
UpdateNodeStatus(nodeId, isActive) ==
    /\ Len(updates) < MaxUpdates
    /\ Commit(StartUpdateNodeStatus(Start, nodeId, isActive))

\* handleSend calls processDeAIQuery(query); the input and the button are
\* disabled until the call has settled
ProcessDeAIQuery(query) ==
    /\ Len(deaiCalls) < MaxQueries
    /\ \A c \in 1..Len(deaiCalls) : deaiCalls[c].status # "running"
    /\ \E t \in Times :
         Commit(StartProcessDeAIQuery([Start EXCEPT !.now = t], query))

\* the chat.sendMessage of call c resolves, or rejects, or response.text()
\* throws
ChatSendSettles(c, outcome) ==
    /\ c \in 1..Len(deaiCalls)
    /\ deaiCalls[c].status = "running"
    /\ deaiCalls[c].pc = "ai"
    /\ Commit(ChatSendSettled(Start, c, outcome))

\* a component calls initializeBackendServices(forceReinit)
InitializeBackendServices(forceReinit, seed) ==
    /\ Len(backendInits) < MaxBackendInits
    /\ Commit(StartInitializeBackendServices(Start, forceReinit, seed))

\* the start and stop calls made by a caller of the module
Switches ==
    Cardinality({e \in 1..Len(backendLog) :
                    /\ backendLog[e].op \in {"start", "stop"}
                    /\ backendLog[e].by = "caller"})

\* a caller invokes startBackendSimulation()
StartSimulation ==
    /\ Switches < MaxSwitches
    /\ Commit(StartBackendSimulation(Start, Stream(Start), "caller"))

\* a caller invokes stopBackendSimulation()
StopSimulation ==
    /\ Switches < MaxSwitches
    /\ Commit(StopBackendSimulation(Start))

\* the interval timer id fires
IntervalFires(id) ==
    /\ id \in activeIntervals
    /\ Cardinality({e \in 1..Len(backendLog) :
                       /\ backendLog[e].op = "tick"
                       /\ backendLog[e].timer # 0}) < MaxTicks
    /\ \E t \in Times :
         Commit(SimulateBackendActivity([Start EXCEPT !.now = t],
                                        Stream(Start), id))

\* the interval callbacks made so far
TicksDone ==
    Cardinality({e \in 1..Len(backendLog) :
                    backendLog[e].op = "tick" /\ backendLog[e].timer # 0})

\* the interval timer id fires, 5 seconds after the previous callback, when
\* the writes of that callback have long settled
IntervalFiresLater(id) ==
    /\ id \in activeIntervals
    /\ tasks = <<>>
    /\ TicksDone < MaxBusyTicks
    /\ \E t \in Times :
         Commit(SimulateBackendActivity([Start EXCEPT !.now = t],
                                        Stream(Start), id))

\* a component calls getServiceRequests() while the log is at its limit
GetRequests ==
    /\ Len(serviceRequests) = RequestLimit
    /\ Cardinality({e \in 1..Len(backendLog) : backendLog[e].op = "get"})
           < MaxGets
    /\ Commit(GetServiceRequests(Start))

ProcessQuery(query, seed) ==
    /\ pq.status = "idle"
    /\ Commit(StartProcessQuery(Start, query, seed))

(***************************************************************************)
(* Specifications.                                                         *)
(***************************************************************************)
\* sends on an initialized network, with their persistence writes
Next ==
    \/ \E fromId \in SendIds, toId \in SendIds : SendNetworkMessage(fromId, toId)
    \/ \E m \in 1..MaxMessages : DeliveryTimerFires(m)
    \/ \E i \in 1..Len(tasks) : DbRequestSucceeds(i)
    \/ \E i \in 1..Len(tasks) : DbOpenFails(i)
    \/ \E i \in 1..Len(tasks) : DbUnavailable(i)
    \/ \E i \in 1..Len(tasks) : DbRequestFails(i)
    \/ \E i \in 1..Len(tasks) : DbRetryDelay(i)

Spec == InitNetwork /\ [][Next]_vars

\* timers fire: the event loop runs every timer callback that is due
FairSpec ==
    Spec /\ \A m \in 1..MaxMessages : WF_vars(DeliveryTimerFires(m))

\* sends and deliveries alone; the persistence writes stay pending, nothing
\* in sendNetworkMessage waits for them
NextSend ==
    \/ \E fromId \in SendIds, toId \in SendIds : SendNetworkMessage(fromId, toId)
    \/ \E m \in 1..MaxMessages : DeliveryTimerFires(m)

SpecSend == InitHealthy /\ [][NextSend]_vars

\* sends and the listener registry
NextListeners ==
    \/ \E fromId \in ListenerSendIds, toId \in ListenerSendIds :
         SendNetworkMessage(fromId, toId)
    \/ \E m \in 1..MaxMessages : DeliveryTimerFires(m)
    \/ SubscribeToMessages
    \/ \E listener \in 1..NumListeners : Unsubscribe(listener)

SpecListeners == InitHealthy /\ [][NextListeners]_vars

\* initializeNetwork on a freshly loaded module, over a backend that works
\* or is unavailable
NextInit ==
    \/ \E seed \in Seeds : InitializeNetwork(seed)
    \/ \E i \in 1..Len(tasks) : DbRequestSucceeds(i)
    \/ \E i \in 1..Len(tasks) : DbUnavailable(i)
    \/ \E i \in 1..Len(tasks) : DbRetryDelay(i)

SpecInit == InitBlank /\ [][NextInit]_vars

\* the content-addressed store over the persistence layer
NextStore ==
    \/ \E content \in StoreContents : AddToIPFS(content)
    \/ \E cid \in {GenerateCID(c) : c \in StoreContents} : GetFromIPFS(cid)
    \/ \E cid \in {GenerateCID(c) : c \in StoreContents} : DeleteContent(cid)
    \/ \E i \in 1..Len(tasks) : DbRequestSucceeds(i)
    \/ \E i \in 1..Len(tasks) : DbOpenFails(i)
    \/ \E i \in 1..Len(tasks) : DbUnavailable(i)
    \/ \E i \in 1..Len(tasks) : DbRequestFails(i)
    \/ \E i \in 1..Len(tasks) : DbRetryDelay(i)

SpecStore == InitBlank /\ [][NextStore]_vars

\* the content store with its listing: two strings are added, the id of
\* one of them is read and deleted; opening the database may fail, which
\* delays an addToIPFS behind the calls made after it
NextList ==
    \/ \E content \in ListContents : AddToIPFS(content)
    \/ \E cid \in ListCids : GetFromIPFS(cid)
    \/ \E cid \in ListCids : DeleteContent(cid)
    \/ ListAllCIDs
    \/ \E i \in 1..Len(tasks) : DbRequestSucceeds(i)
    \/ \E i \in 1..Len(tasks) : DbOpenFails(i)
    \/ \E i \in 1..Len(tasks) : DbRetryDelay(i)

SpecList == InitFresh /\ [][NextList]_vars

\* updateContentMetadata on the id of "A", stored or not yet stored; opening
\* the database may fail
NextUpdate ==
    \/ \E metadata \in StoredMetadata : AddWithMetadata(<<65>>, metadata)
    \/ \E cid \in ListCids, patch \in Patches :
         UpdateContentMetadata(cid, patch)
    \/ \E i \in 1..Len(tasks) : DbRequestSucceeds(i)
    \/ \E i \in 1..Len(tasks) : DbOpenFails(i)
    \/ \E i \in 1..Len(tasks) : DbRetryDelay(i)

SpecUpdate == InitFresh /\ [][NextUpdate]_vars

\* searchContent over records stored with and without metadata, on a
\* backend that works
NextSearch ==
    \/ \E record \in SearchedRecords :
         AddWithMetadata(record.content, record.metadata)
    \/ \E query \in Queries : SearchContent(query)
    \/ \E i \in 1..Len(tasks) : DbRequestSucceeds(i)

SpecSearch == InitFresh /\ [][NextSearch]_vars

\* sends and deliveries with the writes they start, over a backend that
\* works or fails now and then
NextWrites ==
    \/ \E toId \in {"node-13"} : SendNetworkMessage("llm-main", toId)
    \/ \E m \in 1..MaxMessages : DeliveryTimerFires(m)
    \/ \E i \in 1..Len(tasks) : DbRequestSucceeds(i)
    \/ \E i \in 1..Len(tasks) : DbOpenFails(i)
    \/ \E i \in 1..Len(tasks) : DbRequestFails(i)
    \/ \E i \in 1..Len(tasks) : DbRetryDelay(i)

SpecWrites == InitHealthy /\ [][NextWrites]_vars

\* the backend simulation: initializations that may overlap, starts, stops
\* and timer ticks, over a store whose requests may fail
NextBackendSim ==
    \/ \E forceReinit \in BOOLEAN, seed \in Seeds :
         InitializeBackendServices(forceReinit, seed)
    \/ StartSimulation
    \/ StopSimulation
    \/ \E id \in 1..(MaxBackendInits + MaxSwitches) : IntervalFires(id)
    \/ \E i \in 1..Len(tasks) : DbRequestSucceeds(i)
    \/ \E i \in 1..Len(tasks) : DbRequestFails(i)

SpecBackendSim == InitFresh /\ [][NextBackendSim]_vars

\* processDeAIQuery calls, one after the other, with an external service
\* that answers or fails, over a store whose requests may fail
NextDeai ==
    \/ \E query \in DeaiQueries : ProcessDeAIQuery(query)
    \/ \E c \in 1..MaxQueries, outcome \in SendOutcomes :
         ChatSendSettles(c, outcome)
    \/ \E i \in 1..Len(tasks) : DbRequestSucceeds(i)
    \/ \E i \in 1..Len(tasks) : DbRequestFails(i)

SpecDeai == InitFresh /\ [][NextDeai]_vars

\* the ids of the sends that overlap the status updates
MirrorIds == {"llm-main", "node-13"}

\* sends between llm-main and node-13 while updateNodeStatus changes the
\* active flag of node-13, over a backend that works
NextMirror ==
    \/ \E fromId \in MirrorIds, toId \in MirrorIds :
         SendNetworkMessage(fromId, toId)
    \/ \E m \in 1..MaxMessages : DeliveryTimerFires(m)
    \/ \E isActive \in BOOLEAN : UpdateNodeStatus("node-13", isActive)
    \/ \E i \in 1..Len(tasks) : DbRequestSucceeds(i)

SpecMirror == InitHealthy /\ [][NextMirror]_vars

\* one initialization of the backend, whose simulation is left running
\* until the request log has passed its limit, and the panel reading the log
NextRequests ==
    \/ \E seed \in Seeds :
         backendInits = <<>> /\ InitializeBackendServices(FALSE, seed)
    \/ \E id \in 1..MaxBackendInits : IntervalFiresLater(id)
    \/ GetRequests
    \/ \E i \in 1..Len(tasks) : DbRequestSucceeds(i)

SpecRequests == InitFresh /\ [][NextRequests]_vars

\* the random streams of the first initializeNetwork call
TopologySeeds == 1..NumTopologies

\* initializeNetwork on a freshly loaded module, the first call over many
\* random streams, and a repeated call
NextTopology ==
    \/ \E seed \in TopologySeeds :
         /\ inits = <<>> \/ seed \in Seeds
         /\ InitializeNetwork(seed)
    \/ \E i \in 1..Len(tasks) : DbRequestSucceeds(i)

SpecTopology == InitFresh /\ [][NextTopology]_vars

\* sends whose listeners unsubscribe themselves or one another, and
\* unsubscribe calls made at any other moment, any number of times
NextUnsubscribe ==
    \/ \E fromId \in ListenerSendIds, toId \in ListenerSendIds :
         \E who \in 1..NumListeners, whom \in 1..NumListeners :
            SendWhileUnsubscribing(fromId, toId, who, whom)
    \/ \E m \in 1..MaxMessages : DeliveryTimerFires(m)
    \/ SubscribeToMessages
    \/ \E listener \in 1..NumListeners : Unsubscribe(listener)

SpecUnsubscribe == InitHealthy /\ [][NextUnsubscribe]_vars

\* the ids the rejected sends are tried between: a name that is no node, the
\* llm node, a node that is created inactive and two standard nodes
RejectIds == {"client", "llm-main", "node-0", "node-13", "node-10"}

\* sends, most of them rejected, while listeners are registered, a delivery
\* timer is pending and the writes of earlier sends are in flight
NextReject ==
    \/ \E fromId \in RejectIds, toId \in RejectIds :
         SendNetworkMessage(fromId, toId)
    \/ \E m \in 1..MaxMessages : DeliveryTimerFires(m)
    \/ SubscribeToMessages

SpecReject == InitHealthy /\ [][NextReject]_vars

\* the ids the sends of the reachability checks are tried between, and the
\* node whose active flag is changed meanwhile
ReachIds == {"node-13", "node-10", "ipfs-2"}

\* sends over a graph in which node-0 is activated and deactivated
NextReach ==
    \/ \E fromId \in ReachIds, toId \in ReachIds :
         SendNetworkMessage(fromId, toId)
    \/ \E isActive \in BOOLEAN : UpdateNodeStatus("node-0", isActive)
    \/ \E i \in 1..Len(tasks) : DbRequestSucceeds(i)

SpecReach == InitHealthy /\ [][NextReach]_vars

\* the ids updateNodeStatus is called with: a standard node, a name that
\* is no node
UpdateIds == {"node-13", "ghost"}

\* the module has just been evaluated over the database an earlier session
\* left, its last statement having called loadNetworkState(); or the
\* network has been initialized in this session
InitStatus ==
    \/ InitHealthy
    \/ \E seed \in Seeds :
         IsWorld(StartLoadNetworkState(Persisted(seed), seed))

\* updateNodeStatus calls, which may overlap each other and the
\* loadNetworkState of the module load, over a backend that fails now and
\* then
NextStatus ==
    \/ \E nodeId \in UpdateIds, isActive \in BOOLEAN :
         UpdateNodeStatus(nodeId, isActive)
    \/ \E i \in 1..Len(tasks) : DbRequestSucceeds(i)
    \/ \E i \in 1..Len(tasks) : DbOpenFails(i)
    \/ \E i \in 1..Len(tasks) : DbRequestFails(i)
    \/ \E i \in 1..Len(tasks) : DbRetryDelay(i)

SpecStatus == InitStatus /\ [][NextStatus]_vars

\* loadNetworkState, called again after a call has settled, over a backend
\* that works, fails now and then, or is unavailable
NextLoad ==
    \/ \E seed \in Seeds : LoadNetworkState(seed)
    \/ \E i \in 1..Len(tasks) : DbRequestSucceeds(i)
    \/ \E i \in 1..Len(tasks) : DbOpenFails(i)
    \/ \E i \in 1..Len(tasks) : DbUnavailable(i)
    \/ \E i \in 1..Len(tasks) : DbRequestFails(i)
    \/ \E i \in 1..Len(tasks) : DbRetryDelay(i)

SpecLoad == InitLoad /\ [][NextLoad]_vars

\* one string stored, read back and listed over a backend that works, fails
\* now and then, or is unavailable
NextBackend ==
    \/ \E content \in {<<65>>} : AddToIPFS(content)
    \/ \E cid \in ListCids : GetFromIPFS(cid)
    \/ ListAllCIDs
    \/ \E i \in 1..Len(tasks) : DbRequestSucceeds(i)
    \/ \E i \in 1..Len(tasks) : DbOpenFails(i)
    \/ \E i \in 1..Len(tasks) : DbUnavailable(i)
    \/ \E i \in 1..Len(tasks) : DbRequestFails(i)
    \/ \E i \in 1..Len(tasks) : DbRetryDelay(i)

SpecBackend == InitBlank /\ [][NextBackend]_vars

\* addToIPFS calls alone: each computes generateCID(content) before its
\* first await
NextCid == \E content \in CidContents : AddToIPFS(content)

SpecCid == InitFresh /\ [][NextCid]_vars

\* processQuery on an initialized network.  No send of processQuery is
\* ever accepted, so no delivery timer is ever set in this specification
NextQuery ==
    \/ \E query \in Contents, seed \in Seeds : ProcessQuery(query, seed)
    \/ \E i \in 1..Len(tasks) : DbRequestSucceeds(i)
    \/ \E i \in 1..Len(tasks) : DbOpenFails(i)
    \/ \E i \in 1..Len(tasks) : DbUnavailable(i)
    \/ \E i \in 1..Len(tasks) : DbRequestFails(i)
    \/ \E i \in 1..Len(tasks) : DbRetryDelay(i)

SpecQuery == InitNetwork /\ [][NextQuery]_vars

(***************************************************************************)
(* The node list as a graph, read from the state.                          *)
(***************************************************************************)
NodeIds == {nodeHeap[networkNodes[i]].id : i \in 1..Len(networkNodes)}

NodeNamed(id) ==
    CHOOSE n \in {nodeHeap[networkNodes[i]] : i \in 1..Len(networkNodes)} :
        n.id = id

Neighbours(id) == Range(NodeNamed(id).connectedNodes)

ActiveId(id) == id \in NodeIds /\ NodeNamed(id).isActive

\* b is a neighbour of a, or of an active neighbour of a
ReachableFrom(a, b) ==
    \/ b \in Neighbours(a)
    \/ \E k \in Neighbours(a) : ActiveId(k) /\ b \in Neighbours(k)

ExpectedOutcome(a, b) ==
    IF a \notin NodeIds \/ b \notin NodeIds THEN "Node not found"
    ELSE IF ~ActiveId(a) \/ ~ActiveId(b) THEN "One of the nodes is inactive"
    ELSE IF ~ReachableFrom(a, b) THEN "No path between nodes"
    ELSE "accepted"

MessageLog == [i \in 1..Len(networkMessages) |-> msgHeap[networkMessages[i]]]

(***************************************************************************)
(* Claims about sendNetworkMessage.  In Spec no step changes a node's      *)
(* isActive or connectedNodes, so the graph of a state is the graph every  *)
(* earlier call saw.                                                       *)
(***************************************************************************)
\* C1: a send is accepted (one message appended to the log, its promise
\* pending, and a settled promise resolved with the message id) if and only
\* if both ids name nodes of the list, both are active and toId is a
\* neighbour of fromId or of an active neighbour of fromId; otherwise it
\* is rejected and appends nothing, with 'Node not found' when an endpoint
\* is missing, else 'One of the nodes is inactive', else 'No path between
\* nodes'.
C1_SendOutcome ==
    /\ lastSend.result # "none" =>
         /\ lastSend.result = ExpectedOutcome(lastSend.from, lastSend.to)
         /\ IF lastSend.result = "accepted"
            THEN /\ Len(networkMessages) = lastSend.before + 1
                 /\ networkMessages[Len(networkMessages)] = lastSend.msg
                 /\ msgHeap[lastSend.msg].fromNodeId = lastSend.from
                 /\ msgHeap[lastSend.msg].toNodeId = lastSend.to
                 /\ promise[lastSend.msg].state = "pending"
            ELSE /\ Len(networkMessages) = lastSend.before
                 /\ lastSend.msg = 0
    /\ \A m \in 1..Len(promise) :
         \/ promise[m].state = "pending"
         \/ promise[m] = [state |-> "resolved", value |-> msgHeap[m].id]

\* an accepted send whose receiver is no neighbour of the sender
C1_AcceptedThroughIntermediate ==
    /\ lastSend.result = "accepted"
    /\ lastSend.to \notin Neighbours(lastSend.from)

\* C7 as stated: every message of the log joins two active nodes each
\* reachable from the other, directly or through one active intermediate.
C7_MutuallyReachable ==
    \A i \in 1..Len(MessageLog) :
        LET m == MessageLog[i]
        IN /\ ActiveId(m.fromNodeId) /\ ActiveId(m.toNodeId)
           /\ ReachableFrom(m.fromNodeId, m.toNodeId)
           /\ ReachableFrom(m.toNodeId, m.fromNodeId)

\* C7 amended: every message of the log joins two active nodes, the
\* receiver reachable from the sender directly or through one active
\* intermediate; nothing is required of the way back.
C7_ReachableFromSender ==
    \A i \in 1..Len(MessageLog) :
        LET m == MessageLog[i]
        IN /\ ActiveId(m.fromNodeId) /\ ActiveId(m.toNodeId)
           /\ ReachableFrom(m.fromNodeId, m.toNodeId)

\* a logged message whose sender cannot be reached from its receiver
C7_OneWayMessage ==
    \E i \in 1..Len(MessageLog) :
        ~ReachableFrom(MessageLog[i].toNodeId, MessageLog[i].fromNodeId)

(***************************************************************************)
(* Claims about processQuery and addToStore.                               *)
(***************************************************************************)
\* C2: on an initialized network whose persistence does not fail, a
\* processQuery call that has settled has resolved, with a processingPath
\* of at least 4 hops whose first and last elements are 'client'.
C2_PathFromClientToClient ==
    (~backendDown /\ faults = 0 /\ pq.status \notin {"idle", "running"}) =>
        /\ pq.status = "resolved"
        /\ Len(pq.path) >= 4
        /\ pq.path[1] = "client"
        /\ pq.path[Len(pq.path)] = "client"

\* C3: an addToStore call is rejected only after its third failed attempt,
\* whichever step of the attempt failed.
C3_RejectsAfterThirdAttempt ==
    \A f \in finished : ~f.ok => f.attempts = MaxRetries

(***************************************************************************)
(* Claims about delivery and the listener registry.                        *)
(***************************************************************************)
\* C4: every accepted send is eventually marked delivered and its promise
\* resolved with the message id, whatever becomes of the writes it started;
\* the promise is never rejected, it is resolved only once the message is
\* delivered, and the timer of an undelivered message stays pending.
C4_AcceptedSendIsDelivered ==
    /\ [](\A m \in 1..Len(promise) :
            /\ promise[m].state # "rejected"
            /\ promise[m].state = "resolved" =>
                 msgHeap[m].delivered /\ promise[m].value = msgHeap[m].id
            /\ msgHeap[m].delivered \/ m \in timers)
    /\ \A m \in 1..MaxMessages :
         (Len(msgHeap) >= m) ~>
             (/\ Len(msgHeap) >= m
              /\ msgHeap[m].delivered
              /\ promise[m].state = "resolved")

\* a send delivered and resolved although every write it started failed:
\* the backend is down, nothing is pending and nothing was stored
C4_DeliveredWithoutPersistence ==
    /\ backendDown
    /\ tasks = <<>>
    /\ finished # {}
    /\ DOMAIN db.messages = {}
    /\ \E m \in 1..Len(msgHeap) :
         msgHeap[m].delivered /\ promise[m].state = "resolved"

\* listener l was in the registry when message m was created: it had
\* subscribed, and had not unsubscribed, before the send of m
RegisteredFor(l, m) ==
    /\ subAt[l] < m
    /\ unsubAt[l] = -1 \/ m <= unsubAt[l]

CallsOf(l, m) ==
    {k \in 1..Len(calls) : calls[k].listener = l /\ calls[k].msg = m}

\* C5: for each logged message every listener registered at its send has
\* been called exactly once with it, from the send on and also after the
\* delivery, and no other listener was called with it; every call saw
\* delivered = false and no delivery timer set yet; every call is for a
\* logged message, so none is made for a rejected send.
C5_ListenersCalledOnceInSend ==
    /\ \A m \in 1..Len(msgHeap), l \in 1..Len(subAt) :
         Cardinality(CallsOf(l, m)) = IF RegisteredFor(l, m) THEN 1 ELSE 0
    /\ \A k \in 1..Len(calls) :
         /\ ~calls[k].delivered
         /\ ~calls[k].scheduled
         /\ calls[k].msg \in 1..Len(msgHeap)
         /\ calls[k].listener \in 1..Len(subAt)

\* a delivered message that two listeners were called with
C5_TwoListenersOneDelivery ==
    \E m \in 1..Len(msgHeap) :
        /\ msgHeap[m].delivered
        /\ Cardinality({k \in 1..Len(calls) : calls[k].msg = m}) = 2

\* C6: the registry is the subscribed listeners that have not unsubscribed,
\* in the order they subscribed; a listener that unsubscribed is called
\* with no message sent later, and a listener still subscribed has been
\* called once with every message sent since it subscribed.
C6_UnsubscribeRemovesThatListener ==
    /\ messageListeners =
         SelectSeq([l \in 1..Len(subAt) |-> l], LAMBDA l : unsubAt[l] = -1)
    /\ \A l \in 1..Len(subAt) :
         IF unsubAt[l] # -1
         THEN \A k \in 1..Len(calls) :
                  calls[k].listener = l => calls[k].msg <= unsubAt[l]
         ELSE \A m \in (subAt[l] + 1)..Len(msgHeap) :
                  Cardinality(CallsOf(l, m)) = 1

\* a message sent after one of two subscribed listeners had unsubscribed,
\* with which the other was called
C6_OtherListenerStillCalled ==
    \E l1 \in 1..Len(subAt), l2 \in 1..Len(subAt), m \in 1..Len(msgHeap) :
        /\ l1 # l2
        /\ subAt[l1] < m /\ unsubAt[l1] # -1 /\ unsubAt[l1] < m
        /\ CallsOf(l1, m) = {}
        /\ CallsOf(l2, m) # {}

(***************************************************************************)
(* Claims about initializeNetwork.                                         *)
(***************************************************************************)
\* the latest initializeNetwork call has returned
InitCompleted == inits # <<>> /\ inits[Len(inits)].status = "resolved"

NodeList == [i \in 1..Len(networkNodes) |-> nodeHeap[networkNodes[i]]]

IdsOfType(type) ==
    {NodeList[i].id : i \in {j \in 1..Len(NodeList) : NodeList[j].type = type}}

\* C8: after a completed initializeNetwork llm-main lists every ipfs node
\* and every ipfs node lists llm-main.
C8_LlmLinkedWithEveryIpfs ==
    InitCompleted =>
        \A i \in 1..Len(NodeList) :
            /\ NodeList[i].id = "llm-main" =>
                 IdsOfType("ipfs") \subseteq Range(NodeList[i].connectedNodes)
            /\ NodeList[i].type = "ipfs" =>
                 "llm-main" \in Range(NodeList[i].connectedNodes)

\* a completed call in which the random draw of some ipfs node did not
\* pick llm-main: the forced link is the first entry of its list
C8_ForcedLinkKept ==
    /\ InitCompleted
    /\ \E i \in 1..Len(NodeList) :
         /\ NodeList[i].type = "ipfs"
         /\ NodeList[i].connectedNodes[1] = "llm-main"
         /\ Len(NodeList[i].connectedNodes) > 1

\* C9: after a completed initializeNetwork the node list holds 21 nodes of
\* pairwise distinct ids: llm-main of type llm, ipfs-0..ipfs-4 of type ipfs
\* and node-0..node-14 of type standard; every inactive node is standard.
C9_TwentyOneNodes ==
    InitCompleted =>
        /\ Len(NodeList) = 21
        /\ \A i, j \in 1..Len(NodeList) :
             NodeList[i].id = NodeList[j].id => i = j
        /\ IdsOfType("llm") = {"llm-main"}
        /\ IdsOfType("ipfs") = {"ipfs-" \o ToString(k) : k \in 0..4}
        /\ IdsOfType("standard") = {"node-" \o ToString(k) : k \in 0..14}
        /\ \A i \in 1..Len(NodeList) :
             /\ NodeList[i].type \in {"llm", "ipfs", "standard"}
             /\ ~NodeList[i].isActive => NodeList[i].type = "standard"

\* a repeated call has completed after a completed one, with an inactive
\* standard node in the list
C9_RepeatedCallCompleted ==
    /\ Len(inits) >= 2
    /\ inits[1].status = "resolved"
    /\ InitCompleted
    /\ \E i \in 1..Len(NodeList) : ~NodeList[i].isActive

(***************************************************************************)
(* Claims about the content store.                                         *)
(***************************************************************************)
\* between the moments calls a and g settled, a call that deleted the id
\* of a or stored another string under it has settled
Interfered(a, g) ==
    \E x \in 1..Len(ipfsOps) :
        /\ ipfsOps[x].status = "resolved"
        /\ ipfsOps[x].cid = ipfsOps[a].cid
        /\ ipfsOps[a].doneAt < ipfsOps[x].doneAt
        /\ ipfsOps[x].doneAt < ipfsOps[g].doneAt
        /\ \/ ipfsOps[x].kind = "delete"
           \/ ipfsOps[x].kind = "add" /\ ipfsOps[x].content # ipfsOps[a].content

\* g is a getFromIPFS of the id that the addToIPFS a resolved with, called
\* after a resolved, and has settled
GetAfterAdd(a, g) ==
    /\ ipfsOps[a].kind = "add" /\ ipfsOps[a].status = "resolved"
    /\ ipfsOps[g].kind = "get" /\ ipfsOps[g].status # "running"
    /\ ipfsOps[g].cid = ipfsOps[a].result
    /\ ipfsOps[g].startedAt >= ipfsOps[a].doneAt

\* C10: a getFromIPFS(id) called after addToIPFS(c) resolved with id, with
\* no delete of id and no addToIPFS of another string of the same id in
\* between, resolves with exactly c, unless its own store request failed;
\* it never reports 'Content not found'.
C10_GetReturnsWhatWasAdded ==
    \A a \in 1..Len(ipfsOps), g \in 1..Len(ipfsOps) :
        (GetAfterAdd(a, g) /\ ~Interfered(a, g)) =>
            \/ /\ ipfsOps[g].status = "resolved"
               /\ ipfsOps[g].result = ipfsOps[a].content
            \/ /\ ipfsOps[g].status = "rejected"
               /\ ipfsOps[g].result \in {"open failed", "request failed"}

\* a get that returned the non-empty string added before it
C10_RoundTrip ==
    \E a \in 1..Len(ipfsOps), g \in 1..Len(ipfsOps) :
        /\ GetAfterAdd(a, g) /\ ~Interfered(a, g)
        /\ ipfsOps[g].status = "resolved"
        /\ ipfsOps[g].result = ipfsOps[a].content
        /\ ipfsOps[a].content # <<>>

(***************************************************************************)
(* Claims about generateCID.  The expected id is computed from the claim:  *)
(* h -> 31 * h + c on 32-bit patterns, the magnitude by two's complement   *)
(* negation, and the eight hexadecimal digits of the magnitude after 36    *)
(* zeros.                                                                  *)
(***************************************************************************)
\* 31 * h, wrapped to 32 bits
Times31(h) == Word(h.hi * 31 + ((h.lo * 31) \div 65536), h.lo * 31)

RECURSIVE ExpectedHash(_, _)
ExpectedHash(h, content) ==
    IF content = <<>> THEN h
    ELSE LET m == Times31(h)
             c == Head(content)
         IN ExpectedHash(Word(m.hi + ((m.lo + c) \div 65536), m.lo + c),
                         Tail(content))

\* |h|: a pattern with the sign bit set is negated (complement, plus one)
ExpectedMagnitude(h) ==
    IF h.hi < 32768 THEN h
    ELSE Word((65535 - h.hi) + (((65535 - h.lo) + 1) \div 65536),
              (65535 - h.lo) + 1)

HexChars == <<"0", "1", "2", "3", "4", "5", "6", "7", "8", "9",
              "a", "b", "c", "d", "e", "f">>

\* the four hexadecimal digits of a 16-bit half
Hex4(n) ==
    HexChars[(n \div 4096) + 1] \o HexChars[((n \div 256) % 16) + 1]
        \o HexChars[((n \div 16) % 16) + 1] \o HexChars[(n % 16) + 1]

ExpectedCid(content) ==
    LET n == ExpectedMagnitude(ExpectedHash(Word(0, 0), content))
    IN "Qm" \o "000000000000000000000000000000000000" \o Hex4(n.hi)
            \o Hex4(n.lo)

\* C13: the id addToIPFS computes for a string is 'Qm' followed by the
\* magnitude of the 31-multiplier hash of the string, wrapped to signed 32
\* bits, in lowercase hexadecimal left-padded with zeros to 44 characters:
\* 46 characters in all, equal for equal strings, and 'Qm' with 44 zeros
\* for the empty string.
C13_CidIsPaddedHexOfHash ==
    /\ \A k \in 1..Len(ipfsOps) :
         ipfsOps[k].kind = "add" =>
             /\ ipfsOps[k].cid = ExpectedCid(ipfsOps[k].content)
             /\ Len(ipfsOps[k].cid) = 46
             /\ ipfsOps[k].content = <<>> =>
                  ipfsOps[k].cid =
                      "Qm00000000000000000000000000000000000000000000"
    /\ \A j \in 1..Len(ipfsOps), k \in 1..Len(ipfsOps) :
         ipfsOps[j].content = ipfsOps[k].content =>
             ipfsOps[j].cid = ipfsOps[k].cid

\* ids computed for a string whose hash wrapped to a negative value, for
\* the string whose hash is -2^31, and twice for one string
C13_NegativeHashes ==
    /\ \E k \in 1..Len(ipfsOps) :
         ipfsOps[k].cid = "Qm00000000000000000000000000000000000028e04240"
    /\ \E k \in 1..Len(ipfsOps) :
         ipfsOps[k].cid = "Qm00000000000000000000000000000000000080000000"
    /\ \E j \in 1..Len(ipfsOps), k \in 1..Len(ipfsOps) :
         j # k /\ ipfsOps[j].content = ipfsOps[k].content

(***************************************************************************)
(* Claims about listAllCIDs, getFromIPFS and deleteContent.  A call has    *)
(* its effect on the store in the step its request succeeds, which is the  *)
(* step it resolves in, so doneAt orders the effects.                      *)
(***************************************************************************)
\* the latest addToIPFS or deleteContent of cid completed before moment d
\* was an addToIPFS
PutLast(cid, d) ==
    \E a \in 1..Len(ipfsOps) :
        /\ ipfsOps[a].kind = "add" /\ ipfsOps[a].status = "resolved"
        /\ ipfsOps[a].cid = cid /\ ipfsOps[a].doneAt < d
        /\ \A x \in 1..Len(ipfsOps) :
             (/\ ipfsOps[x].kind = "delete" /\ ipfsOps[x].status = "resolved"
              /\ ipfsOps[x].cid = cid /\ ipfsOps[x].doneAt < d)
                 => ipfsOps[x].doneAt < ipfsOps[a].doneAt

\* C11: a listAllCIDs served by the store returns, each once, exactly the
\* ids whose latest completed addToIPFS or deleteContent was an addToIPFS;
\* a getFromIPFS whose own request did not fail rejects with 'Content not
\* found' exactly for an id outside that set; a listing whose database
\* open failed is the empty list of getAllFromStore's catch block.
C11_ListIsIdsLastPut ==
    \A k \in 1..Len(ipfsOps) :
        LET op == ipfsOps[k]
        IN /\ (op.kind = "list" /\ op.status = "resolved" /\ ~op.caught) =>
                /\ Range(op.result) =
                       {ipfsOps[a].cid : a \in {b \in 1..Len(ipfsOps) :
                                                  PutLast(ipfsOps[b].cid,
                                                          op.doneAt)}}
                /\ \A i, j \in 1..Len(op.result) :
                       op.result[i] = op.result[j] => i = j
           /\ (op.kind = "list" /\ op.caught) => op.result = <<>>
           /\ (op.kind = "get" /\ op.status # "running") =>
                \/ /\ op.status = "rejected"
                   /\ op.result \in {"open failed", "request failed"}
                \/ /\ op.status = "rejected"
                   /\ op.result = "Content not found"
                   /\ ~PutLast(op.cid, op.doneAt)
                \/ /\ op.status = "resolved"
                   /\ PutLast(op.cid, op.doneAt)

\* an id was added, then deleted, and a later listing served by the store
\* does not contain it
C11_DeletedIdNotListed ==
    \E a \in 1..Len(ipfsOps), x \in 1..Len(ipfsOps), l \in 1..Len(ipfsOps) :
        /\ ipfsOps[a].kind = "add" /\ ipfsOps[a].status = "resolved"
        /\ ipfsOps[x].kind = "delete" /\ ipfsOps[x].status = "resolved"
        /\ ipfsOps[x].cid = ipfsOps[a].cid
        /\ ipfsOps[a].doneAt < ipfsOps[x].doneAt
        /\ ipfsOps[l].kind = "list" /\ ipfsOps[l].status = "resolved"
        /\ ~ipfsOps[l].caught
        /\ ipfsOps[x].doneAt < ipfsOps[l].doneAt
        /\ ipfsOps[a].cid \notin Range(ipfsOps[l].result)

(***************************************************************************)
(* Claims about failures of the persistence backend.                       *)
(***************************************************************************)
\* C16: a getAllFromStore call never rejects: whether opening the database
\* or the read request on the opened database fails, it resolves, with an
\* empty array.
C16_GetAllNeverRejects ==
    \A r \in reads : r.ok

\* C17: while the backend cannot be opened an upsert is kept in memory: an
\* addToIPFS resolves, a getFromIPFS of its id called afterwards returns
\* the content, and a listAllCIDs called afterwards contains the id.
C17_UpsertKeptWhileBackendDown ==
    backendDown =>
        \A a \in 1..Len(ipfsOps) :
            (ipfsOps[a].kind = "add" /\ ipfsOps[a].status # "running") =>
                /\ ipfsOps[a].status = "resolved"
                /\ \A g \in 1..Len(ipfsOps) :
                     (/\ ipfsOps[g].status # "running"
                      /\ ipfsOps[g].startedAt >= ipfsOps[a].doneAt) =>
                         /\ ipfsOps[g].kind = "get" =>
                              /\ ipfsOps[g].status = "resolved"
                              /\ ipfsOps[g].result = ipfsOps[a].content
                         /\ ipfsOps[g].kind = "list" =>
                              ipfsOps[a].cid \in Range(ipfsOps[g].result)

(***************************************************************************)
(* Claims about updateContentMetadata.                                     *)
(***************************************************************************)
\* call x has written a record under cid and the write completed
WroteTo(x, cid) ==
    /\ ipfsOps[x].cid = cid
    /\ ipfsOps[x].status = "resolved"
    /\ ipfsOps[x].wrote # NoRecord

\* the record under cid once the calls settled up to moment d have had
\* their effect (no call of these specifications deletes)
StoredAt(cid, d) ==
    LET writers == {x \in 1..Len(ipfsOps) :
                       WroteTo(x, cid) /\ ipfsOps[x].doneAt <= d}
    IN IF writers = {} THEN NoRecord
       ELSE ipfsOps[CHOOSE x \in writers :
                        \A y \in writers :
                            ipfsOps[y].doneAt <= ipfsOps[x].doneAt].wrote

\* a write to the id of update u completed while u was in progress
UpdateOverlapped(u) ==
    \E x \in 1..Len(ipfsOps) :
        /\ x # u
        /\ WroteTo(x, ipfsOps[u].cid)
        /\ ipfsOps[u].startedAt < ipfsOps[x].doneAt
        /\ ipfsOps[x].doneAt < ipfsOps[u].doneAt

\* C12: an updateContentMetadata(id, patch) that resolved, with no other
\* write to id completing while it ran, returned false and wrote nothing
\* when no record was stored under id; otherwise it returned true and
\* wrote the stored record with its metadata replaced by the union of the
\* old metadata and patch in which patch keys win, every other field
\* unchanged.  The store holds under each id what the latest completed
\* write wrote.
C12_UpdateMergesMetadata ==
    /\ \A u \in 1..Len(ipfsOps) :
         (/\ ipfsOps[u].kind = "update" /\ ipfsOps[u].status = "resolved"
          /\ ~UpdateOverlapped(u)) =>
             LET old == StoredAt(ipfsOps[u].cid, ipfsOps[u].startedAt)
                 patch == ipfsOps[u].arg
                 had == IF old = NoRecord \/ old.metadata = NoRecord THEN {}
                        ELSE DOMAIN old.metadata
             IN IF old = NoRecord
                THEN ipfsOps[u].result = FALSE /\ ipfsOps[u].wrote = NoRecord
                ELSE /\ ipfsOps[u].result = TRUE
                     /\ ipfsOps[u].wrote =
                          [old EXCEPT !.metadata =
                               [key \in had \cup DOMAIN patch |->
                                   IF key \in DOMAIN patch THEN patch[key]
                                   ELSE old.metadata[key]]]
    /\ \A c \in ListCids :
         StoredAt(c, Len(ipfsOps)) = StoreGet(db.content, c)

\* a record stored without metadata was patched with { a: 1 } and then
\* with { a: 2, b: 3 }, and holds { a: 2, b: 3 } and its content
C12_PatchedTwice ==
    \E a \in 1..Len(ipfsOps), u \in 1..Len(ipfsOps), v \in 1..Len(ipfsOps) :
        /\ ipfsOps[a].kind = "add" /\ ipfsOps[a].status = "resolved"
        /\ ipfsOps[a].arg = NoRecord
        /\ ipfsOps[u].kind = "update" /\ ipfsOps[u].status = "resolved"
        /\ ipfsOps[u].arg = [a |-> 1]
        /\ ipfsOps[u].result = TRUE
        /\ ipfsOps[u].startedAt >= ipfsOps[a].doneAt
        /\ ipfsOps[v].kind = "update" /\ ipfsOps[v].status = "resolved"
        /\ ipfsOps[v].arg = [a |-> 2, b |-> 3]
        /\ ipfsOps[v].result = TRUE
        /\ ipfsOps[v].startedAt >= ipfsOps[u].doneAt
        /\ db.content[ipfsOps[a].cid].metadata = [a |-> 2, b |-> 3]
        /\ db.content[ipfsOps[a].cid].content = <<65>>

(***************************************************************************)
(* Claims about searchContent.                                             *)
(***************************************************************************)
\* the records stored when the request of call q was served
StoredFor(q) ==
    {StoredAt(GenerateCID(c), ipfsOps[q].doneAt - 1) : c \in ListContents}
        \ {NoRecord}

\* C14: a searchContent(query) served by the store returns, each once,
\* exactly the stored records that have metadata and whose metadata has
\* every query key with the query's value: no record stored without
\* metadata, and for the empty query every record that has metadata.
C14_SearchReturnsMatches ==
    \A q \in 1..Len(ipfsOps) :
        (/\ ipfsOps[q].kind = "search" /\ ipfsOps[q].status = "resolved"
         /\ ~ipfsOps[q].caught) =>
            LET query == ipfsOps[q].arg
                found == ipfsOps[q].result
            IN /\ Range(found) =
                    {r \in StoredFor(q) :
                        /\ r.metadata # NoRecord
                        /\ \A key \in DOMAIN query :
                             /\ key \in DOMAIN r.metadata
                             /\ r.metadata[key] = query[key]}
               /\ \A i, j \in 1..Len(found) : found[i] = found[j] => i = j
               /\ \A i \in 1..Len(found) : found[i].metadata # NoRecord
               /\ DOMAIN query = {} =>
                    Range(found) =
                        {r \in StoredFor(q) : r.metadata # NoRecord}

\* with a record without metadata and a record with metadata {} stored, an
\* empty query returned the second and not the first
C14_EmptyQuerySkipsBareRecord ==
    \E q \in 1..Len(ipfsOps) :
        /\ ipfsOps[q].kind = "search" /\ ipfsOps[q].status = "resolved"
        /\ ~ipfsOps[q].caught
        /\ DOMAIN ipfsOps[q].arg = {}
        /\ Len(ipfsOps[q].result) = 1
        /\ DOMAIN ipfsOps[q].result[1].metadata = {}
        /\ Cardinality(StoredFor(q)) = 2

(***************************************************************************)
(* Claims about loadNetworkState.                                          *)
(***************************************************************************)
\* C15: a loadNetworkState call that caught an error while loading has
\* called initializeNetwork from its catch block, also when an earlier
\* load or initialization had succeeded; a call that read the flag as not
\* set has called initializeNetwork; and after a call that found the flag
\* set and a non-empty persisted node list, the node list is the persisted
\* one.
C15_LoadFallsBackOnAnyError ==
    \A l \in 1..Len(loads) :
        /\ loads[l].failed => loads[l].fellBack
        /\ loads[l].flag = "unset" => loads[l].calledInit
        /\ (/\ l = Len(loads) /\ loads[l].status = "resolved"
            /\ loads[l].flag = "set" /\ Len(loads[l].nodes) > 0) =>
               NodeList = loads[l].nodes

(***************************************************************************)
(* Claims about the two writes of a message.                               *)
(***************************************************************************)
\* the writes of message m that have not settled
PendingWrites(m) ==
    {i \in 1..Len(tasks) : WrittenMessage(tasks[i]) = m}

\* the creation write and the delivery write of m were both made and both
\* reached the store
BothWritten(m) ==
    /\ promise[m].state = "resolved"
    /\ PendingWrites(m) = {}
    /\ \A f \in finished : f.msg = m => f.ok

\* C20: once the creation write and the delivery write of a message have
\* both reached the store, in whichever order, the persisted record of the
\* message has delivered = true; and a persisted record with delivered =
\* true is never replaced by one with delivered = false.
C20_DeliveredWriteWins ==
    /\ [](\A m \in 1..Len(msgHeap) :
            BothWritten(m) =>
              /\ msgHeap[m].id \in DOMAIN db.messages
              /\ db.messages[msgHeap[m].id].delivered)
    /\ [][\A id \in DOMAIN db.messages :
            db.messages[id].delivered =>
              /\ id \in DOMAIN db'.messages
              /\ db'.messages[id].delivered]_vars

\* the creation write was delayed by a retry and reached the store after
\* the delivery write: the delivery write completed first, at its first
\* attempt, the creation write second, at its second attempt, and the
\* record has delivered = true
C20_CreationWriteOvertaken ==
    \E m \in 1..Len(msgHeap) :
        /\ BothWritten(m)
        /\ \E f \in finished : /\ f.msg = m /\ f.handler = StatusCatch.id
                               /\ f.nth = 0 /\ f.attempts = 1
        /\ \E f \in finished : /\ f.msg = m /\ f.handler = StoreCatch.id
                               /\ f.nth = 1 /\ f.attempts = 2
        /\ db.messages[msgHeap[m].id].delivered

(***************************************************************************)
(* Claims about processDeAIQuery.                                          *)
(***************************************************************************)
\* the texts a call whose chat.sendMessage failed answers with
FailureTexts ==
    {Placeholder} \cup {ErrorPrefix \o o.text : o \in {x \in SendOutcomes :
                                                         x.isError}}

\* call d is the first call made after the chat.sendMessage of call c
\* settled
NextCallAfter(c, d) ==
    /\ deaiCalls[d].aiStart >= deaiCalls[c].aiDone
    /\ \A e \in 1..(d - 1) : deaiCalls[e].aiStart < deaiCalls[c].aiDone

\* a chat.sendMessage failed after call c was made and before call d
FailureBetween(c, d) ==
    \E f \in 1..Len(deaiCalls) :
        /\ deaiCalls[f].aiDone > deaiCalls[c].aiStart
        /\ deaiCalls[f].aiDone <= deaiCalls[d].aiStart
        /\ ~deaiCalls[f].aiOk

SwitchesBefore(e) ==
    {f \in 1..(e - 1) : backendLog[f].op \in {"start", "stop"}}

\* the last start or stop before event e (0: none)
LastSwitchBefore(e) ==
    IF SwitchesBefore(e) = {} THEN 0
    ELSE CHOOSE f \in SwitchesBefore(e) : \A g \in SwitchesBefore(e) : g <= f

\* C19: over any sequence of initializeBackendServices calls (forced or
\* not, overlapping or not), startBackendSimulation and
\* stopBackendSimulation, at most one interval timer is active and it is
\* the one whose handle simulationInterval holds; once
\* stopBackendSimulation has returned no timer is active until the next
\* start; every tick is either the initial one of a start or the callback
\* of the timer set by the latest start, with no stop in between.
C19_OneSimulationTimer ==
    /\ Cardinality(activeIntervals) <= 1
    /\ activeIntervals =
           IF simulationInterval = 0 THEN {} ELSE {simulationInterval}
    /\ LET last == LastSwitchBefore(Len(backendLog) + 1)
       IN last # 0 /\ backendLog[last].op = "stop" => activeIntervals = {}
    /\ \A e \in 1..Len(backendLog) :
         backendLog[e].op = "tick" =>
            LET last == LastSwitchBefore(e)
            IN /\ last # 0
               /\ backendLog[last].op = "start"
               /\ IF backendLog[e].timer = 0 THEN last = e - 1
                  ELSE backendLog[e].timer = backendLog[last].timer

\* two overlapping initializations have both started the simulation, the
\* timer of the second has ticked, and the simulation was then stopped
C19_ReinitializedThenStopped ==
    /\ \E c, d \in 1..Len(backendInits) :
         /\ c < d
         /\ backendInits[c].started /\ backendInits[d].started
         /\ backendInits[d].overlapped
    /\ \E e \in 1..Len(backendLog) :
         backendLog[e].op = "tick" /\ backendLog[e].timer = 2
    /\ backendLog # <<>> /\ backendLog[Len(backendLog)].op = "stop"
    /\ activeIntervals = {}


\* the in-memory list and the persisted nodes are the same before and after
\* the step
NodesUntouched ==
    /\ db' = db
    /\ networkNodes' = networkNodes
    /\ nodeHeap' = nodeHeap

\* in state W the node id is listed by getActiveNodes exactly when flag
\* holds, and a send between it and any other active node of the list is
\* rejected as inactive exactly when flag does not hold
ActiveAs(W, id, flag) ==
    /\ Includes(GetActiveNodes(W), id) <=> flag
    /\ \A other \in Range(GetActiveNodes(W)) \ {id} :
         /\ SendChecks(W, id, other) = "One of the nodes is inactive" <=> ~flag
         /\ SendChecks(W, other, id) = "One of the nodes is inactive" <=> ~flag

\* call u takes a step from the await named by pc
UpdateStepFrom(u, pc) ==
    /\ u <= Len(updates)
    /\ updates[u].pc = pc
    /\ updates'[u].pc # pc

\* C21: an updateNodeStatus(nodeId, isActive) whose read finds no node
\* returns null, and the call changes neither the persisted nodes nor the
\* in-memory list; one whose read finds the node and whose write succeeds
\* returns with the node persisted with the given flag; if the in-memory
\* list holds a node with that id it is replaced, and then getActiveNodes()
\* lists the node exactly when isActive is true and a send from or to it is
\* rejected as inactive exactly when isActive is false; if the list holds
\* no such node the list is left as it is.
C21_UpdatePersistsAndMirrors ==
    [][\A u \in 1..Len(updates') :
         LET id == updates'[u].nodeId
             flag == updates'[u].isActive
         IN /\ u > Len(updates) => NodesUntouched
            /\ UpdateStepFrom(u, "get") =>
                 /\ NodesUntouched
                 /\ updates'[u].status = "resolved" =>
                      updates'[u].result = "null" /\ id \notin DOMAIN db.nodes
                 /\ updates'[u].pc = "put" => id \in DOMAIN db.nodes
            /\ UpdateStepFrom(u, "put") /\ updates'[u].status = "resolved" =>
                 /\ updates'[u].result = "node"
                 /\ id \in DOMAIN db'.nodes
                 /\ db'.nodes[id].isActive = flag
                 /\ IF FindIndex(World, id) # 0 THEN ActiveAs(World', id, flag)
                    ELSE networkNodes' = networkNodes
            /\ UpdateStepFrom(u, "put") /\ updates'[u].status = "rejected" =>
                 NodesUntouched]_vars

\* the statement without the condition on the in-memory list: after every
\* returned update getActiveNodes() lists the node exactly when isActive is
\* true
C21_ActiveListFollowsUpdate ==
    [][\A u \in 1..Len(updates') :
         UpdateStepFrom(u, "put") /\ updates'[u].status = "resolved" =>
            (Includes(GetActiveNodes(World'), updates'[u].nodeId)
                <=> updates'[u].isActive)]_vars

\* one call has returned null for an id that is not persisted, another has
\* deactivated a node of the in-memory list, which getActiveNodes() no
\* longer lists and from which a send is rejected as inactive
C21_DeactivatedInMemory ==
    \E u, v \in 1..Len(updates) :
        /\ updates[u].result = "node"
        /\ updates[u].ref # 0
        /\ ~updates[u].isActive
        /\ FindNode(World, updates[u].nodeId) = updates[u].ref
        /\ ~Includes(GetActiveNodes(World), updates[u].nodeId)
        /\ SendChecks(World, updates[u].nodeId, "llm-main")
               = "One of the nodes is inactive"
        /\ ~db.nodes[updates[u].nodeId].isActive
        /\ updates[v].result = "null"


\* the active neighbours of a that list b
Intermediates(a, b) ==
    {k \in Neighbours(a) : ActiveId(k) /\ b \in Neighbours(k)}

\* b is listed by an active neighbour of an active neighbour of a
TwoIntermediates(a, b) ==
    \E k \in Neighbours(a) :
        ActiveId(k) /\ \E j \in Neighbours(k) : ActiveId(j) /\ b \in Neighbours(j)

\* C22: a send between two active nodes of the list passes the reachability
\* test exactly when the receiver is in the sender's connectedNodes or in
\* the connectedNodes of a node that is in the sender's connectedNodes, is
\* in the list and is active now; otherwise it is rejected with 'No path
\* between nodes', whatever longer paths or inactive intermediates there
\* are, and a direct link needs no active intermediate.
C22_OneIntermediateFromSender ==
    lastSend.result \in {"accepted", "No path between nodes"} =>
        LET a == lastSend.from
            b == lastSend.to
        IN /\ lastSend.result = "accepted" <=>
                 b \in Neighbours(a) \/ Intermediates(a, b) # {}
           /\ b \in Neighbours(a) => lastSend.result = "accepted"
           /\ b \notin Neighbours(a) /\ Intermediates(a, b) = {} =>
                 lastSend.result = "No path between nodes"

\* a send is rejected for want of a path although two active intermediates
\* in a row lead to the receiver and an inactive neighbour of the sender
\* lists it
C22_LongerPathRejected ==
    /\ lastSend.result = "No path between nodes"
    /\ TwoIntermediates(lastSend.from, lastSend.to)
    /\ \E k \in Neighbours(lastSend.from) :
         ~ActiveId(k) /\ lastSend.to \in Neighbours(k)


\* the three errors sendNetworkMessage rejects with
Rejections ==
    {"Node not found", "One of the nodes is inactive", "No path between nodes"}

\* C23: a sendNetworkMessage call that is rejected, for any of the three
\* reasons, leaves everything as it was: no message is appended, no listener
\* is called, no persistence write is started, no lastSeen or other field of
\* a node changes and no delivery timer is scheduled.
C23_RejectedSendChangesNothing ==
    [][lastSend'.result \in Rejections =>
         UNCHANGED <<nodeHeap, networkNodes, msgHeap, networkMessages,
                     messageListeners, isInitialized, db, tasks, backendDown,
                     timers, promise, calls, subAt, unsubAt, finished>>]_vars

\* a send has just been rejected for want of a path while listeners are
\* registered
C23_RejectedWithListeners ==
    /\ lastSend.result = "No path between nodes"
    /\ Len(messageListeners) = NumListeners


\* the calls the step has added to the record of listener calls
NewCallsOf(l) ==
    {k \in (Len(calls) + 1)..Len(calls') :
        calls'[k].listener = l /\ calls'[k].msg = lastSend'.msg}

\* C24: calling an unsubscribe function a second time changes nothing; a
\* send during which a listener's body calls an unsubscribe function, its
\* own or another listener's, still calls every listener that was
\* registered when the send began exactly once, and leaves the registry
\* without the unsubscribed listener and otherwise as it was.
C24_UnsubscribeTwiceOrInsideCallback ==
    [][/\ \A l \in 1..Len(subAt) :
            Unsubscribe(l) /\ unsubAt[l] # -1 =>
                UNCHANGED <<messageListeners, calls, subAt, unsubAt,
                            networkMessages, msgHeap, tasks, timers>>
       /\ lastSend'.result = "accepted" =>
            /\ \A l \in 1..Len(subAt) :
                 Cardinality(NewCallsOf(l)) =
                     IF Includes(messageListeners, l) THEN 1 ELSE 0
            /\ Len(calls') = Len(calls) + Len(messageListeners)
            /\ lastSend'.msg \in timers'
            /\ \E whom \in 1..NumListeners :
                 messageListeners' =
                     SelectSeq(messageListeners, LAMBDA l : l # whom)]_vars

\* a send has just ended in which the first listener unsubscribed itself
\* and the second listener was called all the same
C24_UnsubscribedInsideCallback ==
    /\ lastSend.result = "accepted"
    /\ Len(subAt) = 2
    /\ unsubAt[1] = lastSend.msg
    /\ messageListeners = <<2>>
    /\ CallsOf(1, lastSend.msg) # {}
    /\ CallsOf(2, lastSend.msg) # {}


\* the hops whose await had been passed when processQuery was at pc
HopsDone(pc) ==
    CASE pc \in {"", "store"} -> 0
      [] pc = "hop1" -> 1
      [] pc = "hop2" -> 2
      [] pc \in {"hop3", "store2"} -> 3
      [] pc = "hop4" -> 4
      [] pc = "hop5" -> 5

\* C25: processQuery takes its hops one at a time and in order, and a hop
\* that is rejected ends the call with that hop's error: the messages that
\* exist are those of the hops made so far, no response record is stored
\* before the third hop has been delivered, the query record stored by
\* step 1 stays, and the call resolves only after all five hops have been
\* delivered.
C25_HopFailureRejectsTheCall ==
    /\ Len(msgHeap) <=
           HopsDone(pq.pc) + (IF pq.status = "running" THEN 1 ELSE 0)
    /\ (pq.status = "rejected" /\ pq.error \in Rejections) =>
           /\ Len(msgHeap) = HopsDone(pq.pc)
           /\ \A m \in 1..Len(msgHeap) : msgHeap[m].delivered
           /\ lastSend.result # "none" => pq.error = lastSend.result
    /\ pq.queryCid # "" =>
           /\ pq.queryCid \in DOMAIN db.content
           /\ db.content[pq.queryCid].content = pq.query
    /\ HopsDone(pq.pc) < 3 => DOMAIN db.content \subseteq {pq.queryCid}
    /\ pq.status = "resolved" =>
           /\ Len(msgHeap) = 5
           /\ \A m \in 1..Len(msgHeap) : msgHeap[m].delivered
    /\ pq.status = "rejected" =>
           pq.error \in Rejections \/ HopsDone(pq.pc) \in {0, 3}

\* the first hop has been rejected and has ended the call, the query record
\* is stored, and there is neither a message nor another record
C25_FirstHopRejected ==
    /\ pq.status = "rejected"
    /\ pq.error = "Node not found"
    /\ pq.queryCid \in DOMAIN db.content
    /\ DOMAIN db.content = {pq.queryCid}
    /\ msgHeap = <<>>
    /\ tasks = <<>>


\* call x is the write to its id that completed last
LatestWriter(x) ==
    /\ WroteTo(x, ipfsOps[x].cid)
    /\ \A y \in 1..Len(ipfsOps) :
         WroteTo(y, ipfsOps[x].cid) => ipfsOps[y].doneAt <= ipfsOps[x].doneAt

\* C26: the content store holds one record per id, under the record's own
\* cid; an addToIPFS that resolved wrote the record built from its own
\* arguments, and while no later write to the id has completed the stored
\* record is that record, with the metadata argument of the call (none when
\* none was given) in place of whatever metadata was stored before.
C26_ReAddReplacesWholeRecord ==
    /\ \A k \in DOMAIN db.content : db.content[k].cid = k
    /\ \A a \in 1..Len(ipfsOps) :
         (ipfsOps[a].kind = "add" /\ ipfsOps[a].status = "resolved") =>
             /\ ipfsOps[a].wrote.cid = ipfsOps[a].cid
             /\ ipfsOps[a].wrote.content = <<65>>
             /\ ipfsOps[a].wrote.metadata = ipfsOps[a].arg
             /\ LatestWriter(a) =>
                  db.content[ipfsOps[a].cid] = ipfsOps[a].wrote

\* a record stored with { b: 1 } was patched with { a: 1 }, then the same
\* content was added without metadata, and the stored record has none
C26_PatchDiscardedByReAdd ==
    \E a \in 1..Len(ipfsOps), u \in 1..Len(ipfsOps), b \in 1..Len(ipfsOps) :
        /\ ipfsOps[a].kind = "add" /\ ipfsOps[a].status = "resolved"
        /\ ipfsOps[a].arg = [b |-> 1]
        /\ ipfsOps[u].kind = "update" /\ ipfsOps[u].status = "resolved"
        /\ ipfsOps[u].result = TRUE
        /\ ipfsOps[u].startedAt >= ipfsOps[a].doneAt
        /\ ipfsOps[u].wrote.metadata = [a |-> 1, b |-> 1]
        /\ ipfsOps[b].kind = "add" /\ ipfsOps[b].status = "resolved"
        /\ ipfsOps[b].arg = NoRecord
        /\ ipfsOps[b].startedAt >= ipfsOps[u].doneAt
        /\ db.content[ipfsOps[a].cid].metadata = NoRecord
        /\ DOMAIN db.content = {ipfsOps[a].cid}


\* the list has no entry twice
NoDuplicate(list) == \A i, j \in 1..Len(list) : list[i] = list[j] => i = j

C28_TrimKeepsNewest ==
    [][TicksDone' > TicksDone =>
         /\ Len(serviceRequests') <= RequestLimit
         /\ \A r \in Range(serviceRequests) \ Range(serviceRequests') :
              \A k \in Range(serviceRequests') :
                  r.timestamp <= k.timestamp]_vars


\* an addToIPFS wrote to the id of call u after u had started
ReplacedSince(u) ==
    \E x \in 1..Len(ipfsOps) :
        /\ ipfsOps[x].kind = "add"
        /\ WroteTo(x, ipfsOps[u].cid)
        /\ ipfsOps[x].doneAt > ipfsOps[u].startedAt

\* C29: no metadata update is lost: once an updateContentMetadata(id,
\* patch) has returned true, the record stored under id has every key of
\* patch in its metadata, also when other updateContentMetadata calls on
\* the same id overlapped it, unless the record was replaced by an
\* addToIPFS meanwhile.
C29_NoUpdateLost ==
    \A u \in 1..Len(ipfsOps) :
        (/\ ipfsOps[u].kind = "update" /\ ipfsOps[u].status = "resolved"
         /\ ipfsOps[u].result = TRUE /\ ~ReplacedSince(u)) =>
            /\ ipfsOps[u].cid \in DOMAIN db.content
            /\ db.content[ipfsOps[u].cid].metadata # NoRecord
            /\ DOMAIN ipfsOps[u].arg
                   \subseteq DOMAIN db.content[ipfsOps[u].cid].metadata


\* C30: whenever no persistence operation is in flight, every node of the
\* in-memory list that has a persisted record has the same isActive as
\* that record, also after an updateNodeStatus call has overlapped the
\* endpoint writes of a send.
C30_PersistedNodesMirrorMemory ==
    tasks = <<>> =>
        \A i \in 1..Len(NodeList) :
            NodeList[i].id \in DOMAIN db.nodes =>
                db.nodes[NodeList[i].id].isActive = NodeList[i].isActive

====
